---- MODULE Spec2Model ----
(***************************************************************************)
(* Model of the license server: the verify endpoint, the administrative   *)
(* resets and the Paddle webhook endpoint, over a relational store.       *)
(*                                                                         *)
(* Every handler is written once, as a small-step function Step(st, loc,  *)
(* env) of the committed store st, the handler's local variables loc and   *)
(* what other open transactions hold (env).  One step is the local code   *)
(* up to and including one store statement (query, flush or commit).      *)
(*   Spec      runs each handler to completion in one action (requests    *)
(*             served one after another);                                 *)
(*   SpecConc  runs the handlers of several requests one step at a time,   *)
(*             interleaved, each statement reading the committed store     *)
(*             (READ COMMITTED) plus its own session.                      *)
(***************************************************************************)
EXTENDS Bags, FiniteSets, Integers, Sequences, TLC

VARIABLES
    licenses,   \* set of License rows       [id, sub, email, allowed, customer_id, status]
    customers,  \* set of Customer rows      [id, email, pcid]
    usages,     \* bag of LicenseUsage rows  [license_id, machine_id, container_id]
    bindings,   \* bag of MachineBinding rows [license_id, machine_id]
    tokens,     \* set of MagicToken rows    [id, license_id, expires_at, used_at];
                \* id stands for the unique random token string as well
    logs,       \* sequence of WebhookLog rows [event_type, payload, signature]
    now,        \* the clock, in hours
    procs,      \* SpecConc: the local variables of each request in flight
    resp        \* Spec: the response of the request served last

vars == <<licenses, customers, usages, bindings, tokens, logs, now, procs, resp>>

tables == <<licenses, customers, usages, bindings, tokens, logs>>

----------------------------------------------------------------------------
(* Bounds of the model *)

MaxLog == 2          \* deliveries that reach the audit log
MaxUsage == 3        \* LicenseUsage rows in the store
MaxTime == 24        \* the clock stops advancing once it has reached this hour
MaxTokens == 2       \* MagicToken rows in the store when a magic link is requested

(* Program constants *)

TokenHours == 24     \* get_token_expiry(hours=24)
Unlimited == -1      \* allowed_containers sentinel

----------------------------------------------------------------------------
(* Values *)

None == "None"       \* Python None / SQL NULL, for string-valued fields
Null == {}           \* SQL NULL of a DateTime column; a value t is {t}
Absent == "Absent"   \* a key that the JSON object does not have

Subs == {"s1", "s2"}
Machines == {"m1", "m2"}
Containers == {"c1", "c2", "c3"}
Procs == {"p1", "p2"}

Falsy(v) == v \in {None, Absent, ""}
Truthy(v) == ~Falsy(v)

(* x or y, for string-valued x, y *)
Or(x, y) == IF Truthy(x) THEN x ELSE y

Max(S) == IF S = {} THEN 0 ELSE CHOOSE m \in S : \A x \in S : x <= m

----------------------------------------------------------------------------
(* The store *)

Store == [licenses |-> licenses, customers |-> customers, usages |-> usages,
          bindings |-> bindings, tokens |-> tokens, logs |-> logs, now |-> now]

(* db.query(License).filter(License.paddle_subscription_id == key).first():
   the set of matching rows; .first() is any one of them (the unique index
   leaves at most one). *)
LicenseBySub(st, key) == {l \in st.licenses : l.sub = key}

LicenseById(st, id) == {l \in st.licenses : l.id = id}

(* db.query(LicenseUsage).filter(license_id == lid).count() *)
UsageCount(st, lid) ==
    LET rows == {u \in BagToSet(st.usages) : u.license_id = lid}
    IN  BagCardinality([u \in rows |-> st.usages[u]])

(* db.query(LicenseUsage).filter(license_id == lid, container_id == cid).first() *)
UsageExists(st, lid, cid) ==
    \E u \in BagToSet(st.usages) : u.license_id = lid /\ u.container_id = cid

(* db.query(MachineBinding).filter(license_id == lid, machine_id == mid).first() *)
BindingExists(st, lid, mid) ==
    \E b \in BagToSet(st.bindings) : b.license_id = lid /\ b.machine_id = mid

(* rows of a bag that do not satisfy Drop(row): query.filter(...).delete() *)
BagWithout(B, Drop(_)) ==
    LET keep == {r \in BagToSet(B) : ~Drop(r)} IN [r \in keep |-> B[r]]

----------------------------------------------------------------------------
(* Responses.  One record shape for every endpoint. *)

NoResp == [http |-> 0, valid |-> FALSE, success |-> FALSE, message |-> "",
           license_id |-> 0, license_key |-> None, status |-> None,
           allowed |-> 0, usage |-> 0, event_type |-> ""]

HttpError(code, detail) == [NoResp EXCEPT !.http = code, !.message = detail]

----------------------------------------------------------------------------
(* POST /api/license/verify *)

VerifyRequest(key, machine_id, container_id) ==
    [op |-> "verify", pc |-> "license", key |-> key, machine_id |-> machine_id,
     container_id |-> container_id, license_id |-> 0, allowed |-> 0,
     existing_binding |-> FALSE, current_usage |-> 0,
     add_usage |-> FALSE, add_binding |-> FALSE, resp |-> NoResp]

Finish(st, loc, r) == [st |-> st, loc |-> [loc EXCEPT !.pc = "done", !.resp = r]]

Goto(st, loc, pc) == [st |-> st, loc |-> [loc EXCEPT !.pc = pc]]

LimitReached(loc) ==
    [NoResp EXCEPT !.http = 200, !.valid = FALSE,
                   !.message = "Container limit reached",
                   !.allowed = loc.allowed, !.usage = loc.current_usage]

(* 1) the license lookup and the status check *)
verify_lookup(st, loc) ==
    LET found == LicenseBySub(st, loc.key) IN
    IF found = {}
    THEN Finish(st, loc, [NoResp EXCEPT !.http = 200, !.message = "License not found"])
    ELSE LET license_obj == CHOOSE l \in found : TRUE IN
         IF license_obj.status # "active"
         THEN Finish(st, loc, [NoResp EXCEPT
                                 !.http = 200,
                                 !.message = "License is " \o license_obj.status
                                             \o ". Only active licenses are valid."])
         ELSE Goto(st, [loc EXCEPT !.license_id = license_obj.id,
                                   !.allowed = license_obj.allowed], "binding")

(* mutant: a license bound to one machine refuses every other machine *)
verify_binding_one_machine(st, loc) ==
    IF \E b \in BagToSet(st.bindings) :
          b.license_id = loc.license_id /\ b.machine_id # loc.machine_id
    THEN Finish(st, loc, [NoResp EXCEPT !.http = 200,
                                        !.message = "License bound to another machine"])
    ELSE Goto(st, [loc EXCEPT !.existing_binding =
                                  BindingExists(st, loc.license_id, loc.machine_id)],
              "count")

(* 2) is the machine already bound to the license *)
verify_binding(st, loc) ==
    Goto(st, [loc EXCEPT !.existing_binding =
                             BindingExists(st, loc.license_id, loc.machine_id)],
         "count")

(* 3) the usage count *)
verify_count(st, loc) ==
    Goto(st, [loc EXCEPT !.current_usage = UsageCount(st, loc.license_id)], "quota")

(* mutant: the limit compared with > instead of >= *)
quota_rejects_off_by_one(st, loc) ==
    /\ loc.allowed # Unlimited
    /\ IF Truthy(loc.container_id)
       THEN /\ ~UsageExists(st, loc.license_id, loc.container_id)
            /\ loc.current_usage > loc.allowed
       ELSE loc.current_usage > loc.allowed

(* mutant: the check made without the test for the -1 sentinel *)
quota_rejects_ignores_sentinel(st, loc) ==
    IF Truthy(loc.container_id)
    THEN /\ ~UsageExists(st, loc.license_id, loc.container_id)
         /\ loc.current_usage >= loc.allowed
    ELSE loc.current_usage >= loc.allowed

(* mutant: at the limit a counted container is refused like a new one *)
quota_rejects_counted_container(st, loc) ==
    /\ loc.allowed # Unlimited
    /\ loc.current_usage >= loc.allowed

(* the condition under which the quota check rejects the request *)
quota_rejects(st, loc) ==
    /\ loc.allowed # Unlimited
    /\ IF Truthy(loc.container_id)
       THEN /\ ~UsageExists(st, loc.license_id, loc.container_id)
            /\ loc.current_usage >= loc.allowed
       ELSE loc.current_usage >= loc.allowed

(* mutant: the machine is bound before the quota is checked *)
verify_quota_binds_machine(st, loc) ==
    IF quota_rejects(st, loc)
    THEN Finish([st EXCEPT !.bindings =
                    @ (+) SetToBag({[license_id |-> loc.license_id,
                                     machine_id |-> loc.machine_id]})],
                loc, LimitReached(loc))
    ELSE Goto(st, loc, "track")

verify_quota(st, loc) ==
    IF quota_rejects(st, loc)
    THEN Finish(st, loc, LimitReached(loc))
    ELSE Goto(st, loc, "track")

(* mutant: a usage row added without looking for an existing one *)
tracks_every_container(st, loc) == Truthy(loc.container_id)

(* mutant: a usage row also for a request without a container id *)
tracks_without_container(st, loc) ==
    ~UsageExists(st, loc.license_id, loc.container_id)

(* does the request add a LicenseUsage row to the session *)
tracks_new_container(st, loc) ==
    /\ Truthy(loc.container_id)
    /\ ~UsageExists(st, loc.license_id, loc.container_id)

(* 4) usage tracking and 5) machine binding: rows added to the session *)
verify_track(st, loc) ==
    LET new == tracks_new_container(st, loc) IN
    Goto(st, [loc EXCEPT !.add_usage = new,
                         !.current_usage = IF new THEN @ + 1 ELSE @,
                         !.add_binding = ~loc.existing_binding],
         "commit")

UsageRow(loc) == [license_id |-> loc.license_id, machine_id |-> loc.machine_id,
                  container_id |-> loc.container_id]

BindingRow(loc) == [license_id |-> loc.license_id, machine_id |-> loc.machine_id]

(* 6) db.commit(): the session's rows reach the store *)
verify_commit(st, loc) ==
    Goto([st EXCEPT
            !.usages = IF loc.add_usage THEN @ (+) SetToBag({UsageRow(loc)}) ELSE @,
            !.bindings = IF loc.add_binding THEN @ (+) SetToBag({BindingRow(loc)}) ELSE @],
         loc, "final")

(* mutant: the locally incremented count is returned *)
verify_final_local_count(st, loc) ==
    Finish(st, loc,
           [NoResp EXCEPT !.http = 200, !.valid = TRUE,
                          !.message = "License verified and bound to machine",
                          !.license_id = loc.license_id, !.allowed = loc.allowed,
                          !.usage = loc.current_usage])

(* the usage count is read again after the commit and returned *)
verify_final(st, loc) ==
    Finish(st, loc,
           [NoResp EXCEPT !.http = 200, !.valid = TRUE,
                          !.message = "License verified and bound to machine",
                          !.license_id = loc.license_id, !.allowed = loc.allowed,
                          !.usage = UsageCount(st, loc.license_id)])

verify_license(st, loc) ==
    CASE loc.pc = "license" -> verify_lookup(st, loc)
      [] loc.pc = "binding" -> verify_binding(st, loc)
      [] loc.pc = "count"   -> verify_count(st, loc)
      [] loc.pc = "quota"   -> verify_quota(st, loc)
      [] loc.pc = "track"   -> verify_track(st, loc)
      [] loc.pc = "commit"  -> verify_commit(st, loc)
      [] loc.pc = "final"   -> verify_final(st, loc)

----------------------------------------------------------------------------
(* POST /api/admin/licenses/{id}/reset-containers and reset-machines *)

AdminApiKey == "admin-key"
AdminKeys == {AdminApiKey, "wrong-key", "", Absent}

(* x_admin_api_key: str = Header(..., alias="X-Admin-API-Key"): a required
   header; a request without it is answered 422 by the framework before the
   handler body runs *)
header_missing(x_admin_api_key) == x_admin_api_key = Absent

ValidationError == HttpError(422, "Field required")

verify_admin_api_key(x_admin_api_key) ==
    ~(Falsy(x_admin_api_key) \/ x_admin_api_key # AdminApiKey)

ResetRequest(op, license_id, key) ==
    [op |-> op, pc |-> "run", license_id |-> license_id, key |-> key, resp |-> NoResp]

Success(message) == [NoResp EXCEPT !.http = 200, !.message = message]

(* mutant: the reset deletes the rows of the first machine only *)
reset_containers_one_machine(st, loc) ==
    IF header_missing(loc.key)
    THEN Finish(st, loc, ValidationError)
    ELSE IF ~verify_admin_api_key(loc.key)
    THEN Finish(st, loc, HttpError(401, "Invalid or missing admin API key"))
    ELSE IF LicenseById(st, loc.license_id) = {}
    THEN Finish(st, loc, HttpError(404, "License not found"))
    ELSE Finish([st EXCEPT !.usages =
                    BagWithout(@, LAMBDA u : u.license_id = loc.license_id
                                             /\ u.machine_id = "m1")],
                loc, Success("Container usage reset"))

(* mutant: the reset of the containers clears the machines as well *)
reset_containers_and_machines(st, loc) ==
    IF header_missing(loc.key)
    THEN Finish(st, loc, ValidationError)
    ELSE IF ~verify_admin_api_key(loc.key)
    THEN Finish(st, loc, HttpError(401, "Invalid or missing admin API key"))
    ELSE IF LicenseById(st, loc.license_id) = {}
    THEN Finish(st, loc, HttpError(404, "License not found"))
    ELSE Finish([st EXCEPT
                   !.usages = BagWithout(@, LAMBDA u : u.license_id = loc.license_id),
                   !.bindings = BagWithout(@, LAMBDA b : b.license_id = loc.license_id)],
                loc, Success("Container usage reset"))

reset_containers(st, loc) ==
    IF header_missing(loc.key)
    THEN Finish(st, loc, ValidationError)
    ELSE IF ~verify_admin_api_key(loc.key)
    THEN Finish(st, loc, HttpError(401, "Invalid or missing admin API key"))
    ELSE IF LicenseById(st, loc.license_id) = {}
    THEN Finish(st, loc, HttpError(404, "License not found"))
    ELSE Finish([st EXCEPT !.usages =
                    BagWithout(@, LAMBDA u : u.license_id = loc.license_id)],
                loc, Success("Container usage reset"))

(* mutant: the bindings are deleted without looking the license up *)
reset_machines_without_lookup(st, loc) ==
    IF header_missing(loc.key)
    THEN Finish(st, loc, ValidationError)
    ELSE IF ~verify_admin_api_key(loc.key)
    THEN Finish(st, loc, HttpError(401, "Invalid or missing admin API key"))
    ELSE Finish([st EXCEPT !.bindings =
                    BagWithout(@, LAMBDA b : b.license_id = loc.license_id)],
                loc, Success("Machine bindings reset"))

reset_machines(st, loc) ==
    IF header_missing(loc.key)
    THEN Finish(st, loc, ValidationError)
    ELSE IF ~verify_admin_api_key(loc.key)
    THEN Finish(st, loc, HttpError(401, "Invalid or missing admin API key"))
    ELSE IF LicenseById(st, loc.license_id) = {}
    THEN Finish(st, loc, HttpError(404, "License not found"))
    ELSE Finish([st EXCEPT !.bindings =
                    BagWithout(@, LAMBDA b : b.license_id = loc.license_id)],
                loc, Success("Machine bindings reset"))

----------------------------------------------------------------------------
(* Paddle-Signature verification *)

paddle_webhook_secret == "whsec"

(* HMAC-SHA256(key, msg).hexdigest(), as an ideal MAC: two digests are equal
   exactly when key and message are. *)
hmac_hexdigest(key, msg) == [key |-> key, msg |-> msg]

(* f"{ts}:{body_str}" *)
signed_payload(ts, body) == <<ts, ":", body>>

(* A header is the sequence of its ";"-separated parts; a part with "=" is
   [eq |-> TRUE, k, v], one without is [eq |-> FALSE, ...].  The empty
   sequence is the header that is missing (or empty). *)
Part(k, v) == [eq |-> TRUE, k |-> k, v |-> v]
BarePart == [eq |-> FALSE, k |-> "", v |-> 0]

(* values = {}; for part in parts: if "=" in part: values[k] = v *)
header_has(header, k) == \E i \in DOMAIN header : header[i].eq /\ header[i].k = k

header_value(header, k) ==
    LET last == Max({i \in DOMAIN header : header[i].eq /\ header[i].k = k})
    IN  header[last].v

(* _parse_paddle_signature_header: is the header well formed *)
parse_paddle_signature_header(header) ==
    header_has(header, "ts") /\ header_has(header, "h1")

(* hmac.compare_digest(digest, h1) *)
signature_matches(header, body) ==
    hmac_hexdigest(paddle_webhook_secret,
                   signed_payload(header_value(header, "ts"), body))
        = header_value(header, "h1")

(* body_bytes.decode("utf-8"): does it raise UnicodeDecodeError *)
decode_fails(body) == body.json = "not_utf8"

(* mutant: a request without the header is answered like a wrong digest *)
verify_paddle_signature_missing_as_401(header, body) ==
    IF header = <<>> THEN 401
    ELSE IF ~parse_paddle_signature_header(header) THEN 400
    ELSE IF decode_fails(body) THEN 500
    ELSE IF ~signature_matches(header, body) THEN 401
    ELSE 0

(* verify_paddle_signature: 0 when the body is accepted, else the HTTP status
   (500 for the exception that no handler catches) *)
verify_paddle_signature(header, body) ==
    IF header = <<>> THEN 400
    ELSE IF ~parse_paddle_signature_header(header) THEN 400
    ELSE IF decode_fails(body) THEN 500
    ELSE IF ~signature_matches(header, body) THEN 401
    ELSE 0

(* the detail of the HTTPException (the name of the exception for a 500) *)
signature_error_detail(header, bad) ==
    CASE bad = 401 -> "Invalid webhook signature"
      [] bad = 500 -> "UnicodeDecodeError"
      [] bad = 400 /\ header = <<>> -> "Missing Paddle-Signature header"
      [] OTHER -> "Malformed Paddle-Signature header"

----------------------------------------------------------------------------
(* Webhook bodies.  A body is what json.loads makes of it:
     json = "not_utf8" bytes that are no UTF-8 text
     json = "invalid"  text, but no JSON
     json = "array"    JSON, but no object
     json = "object"   an object with the keys the handler reads; a key the
                       object lacks is Absent, a JSON null is None. *)

Item(name, product_id, quantity) ==
    [price |-> [name |-> name, product_id |-> product_id], quantity |-> quantity,
     quantity_is_int |-> TRUE]

(* an item whose quantity is missing, null, a string or a fraction *)
ItemWithoutCount(name, product_id) ==
    [Item(name, product_id, 0) EXCEPT !.quantity_is_int = FALSE]

Body(event_type, data) ==
    [json |-> "object", event_type |-> event_type, event |-> Absent, data |-> data]

Data(id, subscription_id, status, customer, customer_id, billing_email, items) ==
    [is |-> "object", id |-> id, subscription_id |-> subscription_id,
     status |-> status, customer |-> customer, customer_id |-> customer_id,
     billing_details |-> [email |-> billing_email], items |-> items]

NoData == [Data(Absent, Absent, Absent, [email |-> Absent, id |-> Absent], Absent,
                Absent, <<>>) EXCEPT !.is = Absent]

InvalidJson == [json |-> "invalid", event_type |-> Absent, event |-> Absent,
                data |-> NoData]
ArrayJson == [json |-> "array", event_type |-> Absent, event |-> Absent,
              data |-> NoData]
NotUtf8 == [json |-> "not_utf8", event_type |-> Absent, event |-> Absent,
            data |-> NoData]

(* str.lower() on the strings of the model *)
Lower(s) ==
    CASE s = "Subscription.Created" -> "subscription.created"
      [] s = "Pro" -> "pro"
      [] s = "ENTERPRISE" -> "enterprise"
      [] OTHER -> s

PLAN_MAX_CONTAINERS == [basic |-> 1, pro |-> 5, enterprise |-> -1]

(* price.name or price.product_id or "basic", lower-cased; "basic" without items *)
plan_name(items) ==
    IF items = <<>> THEN "basic"
    ELSE Lower(Or(items[1].price.name, Or(items[1].price.product_id, "basic")))

(* subscription.*: PLAN_MAX_CONTAINERS.get(plan_name, 1) *)
subscription_allowed(items) ==
    LET plan == plan_name(items) IN
    IF plan \in DOMAIN PLAN_MAX_CONTAINERS THEN PLAN_MAX_CONTAINERS[plan] ELSE 1

(* mutant: the quantity overrides the plan table *)
transaction_allowed_quantity_first(items) ==
    LET plan == plan_name(items) IN
    IF items # <<>> /\ items[1].quantity_is_int /\ items[1].quantity > 0
    THEN items[1].quantity
    ELSE IF plan \in DOMAIN PLAN_MAX_CONTAINERS THEN PLAN_MAX_CONTAINERS[plan]
    ELSE 1

(* transaction.completed: the quantity, unless the plan table maps the plan *)
transaction_allowed(items) ==
    LET plan == plan_name(items)
        by_qty == IF /\ items # <<>>
                     /\ items[1].quantity_is_int    \* isinstance(qty, int)
                     /\ items[1].quantity > 0
                  THEN items[1].quantity ELSE 1
    IN  IF plan \in DOMAIN PLAN_MAX_CONTAINERS THEN PLAN_MAX_CONTAINERS[plan]
        ELSE by_qty

(* mutant: the event type compared as the payload spells it *)
normalized_event_type_as_spelled(body) ==
    Or(body.event_type, Or(body.event, "unknown"))

(* payload.get("event_type") or payload.get("event") or "unknown", lower-cased *)
normalized_event_type(body) ==
    Lower(Or(body.event_type, Or(body.event, "unknown")))

----------------------------------------------------------------------------
(* POST /api/paddle/webhook *)

(* mutant: the sender lets the SMTP exception through *)
send_magic_link_email_raises(smtp_fails) ==
    IF smtp_fails THEN "raised" ELSE "returned"

(* send_magic_link_email: every exception of the SMTP exchange is caught and
   logged, and the function returns True *)
send_magic_link_email(smtp_fails) ==
    IF smtp_fails THEN "returned" ELSE "returned"

WebhookRequest(header, body) ==
    [op |-> "webhook", pc |-> "recv", header |-> header, body |-> body,
     smtp_fails |-> FALSE,
     event_type |-> "", log |-> {}, subscription_id |-> None, email |-> None,
     pcid |-> None, allowed |-> 1, status |-> None, customer_id |-> 0,
     license_id |-> 0, new_customer |-> {}, new_license |-> {},
     lic_update |-> {}, new_token |-> {}, resp |-> NoResp]

(* What the other open transactions hold: the unique keys and the ids of the
   rows they have flushed and not yet committed. *)
NoEnv == [emails |-> {}, pcids |-> {}, subs |-> {},
          customer_ids |-> {}, license_ids |-> {}, token_ids |-> {},
          token_updates |-> {}]

WebhookLog(event_type, payload, signature) ==
    [event_type |-> event_type, payload |-> payload, signature |-> signature]

(* mutant: the audit row is committed although the handler failed *)
ServerError_keeps_log(st, loc, exception) ==
    Finish([st EXCEPT !.logs = IF loc.log = {} THEN @
                               ELSE Append(@, CHOOSE w \in loc.log : TRUE)],
           [loc EXCEPT !.log = {}, !.new_customer = {}, !.new_license = {},
                       !.lic_update = {}, !.new_token = {}],
           HttpError(500, exception))

(* an unhandled exception: the session is closed without a commit, the
   response is a 500; message names the exception that the server logs *)
ServerError(st, loc, exception) ==
    Finish(st, [loc EXCEPT !.log = {}, !.new_customer = {}, !.new_license = {},
                           !.lic_update = {}, !.new_token = {}],
           HttpError(500, exception))

(* mutant: unparseable JSON acknowledged without the audit row *)
webhook_invalid_json_unlogged(st, loc) ==
    Finish(st, loc, [NoResp EXCEPT !.http = 200, !.message = "ignored",
                                   !.event_type = "invalid_json"])

(* except json.JSONDecodeError: the audit row is added and committed, the
   delivery is acknowledged as ignored *)
webhook_invalid_json(st, loc) ==
    Finish([st EXCEPT !.logs = Append(@, WebhookLog("invalid_json", loc.body,
                                                    loc.header))],
           loc, [NoResp EXCEPT !.http = 200, !.message = "ignored",
                               !.event_type = "invalid_json"])

(* 1)-3): the signature, the JSON, the log row, and the fields of the event *)
webhook_receive(st, loc) ==
    LET body == loc.body
        bad == verify_paddle_signature(loc.header, body)
        event_type == normalized_event_type(body)
        data == body.data
        logged == [loc EXCEPT !.event_type = event_type,
                              !.log = {WebhookLog(event_type, body, loc.header)}]
    IN
    IF bad # 0
    THEN Finish(st, loc, HttpError(bad, signature_error_detail(loc.header, bad)))
    ELSE IF body.json = "invalid"
    THEN webhook_invalid_json(st, loc)
    ELSE IF body.json # "object"
    THEN ServerError(st, loc, "AttributeError")   \* payload.get on a list, a string
    ELSE IF event_type \in {"subscription.created", "subscription.updated"}
    THEN IF data.is = "string" THEN ServerError(st, loc, "AttributeError")
         ELSE IF Falsy(data.id) THEN Goto(st, logged, "commit")
         ELSE LET customer_email == Or(data.customer.email, "") IN
              Goto(st, [logged EXCEPT
                          !.subscription_id = data.id,
                          !.email = customer_email,
                          !.pcid = Or(data.customer.id, None),
                          !.allowed = subscription_allowed(data.items),
                          !.status = IF data.status = Absent THEN "active"
                                     ELSE data.status],
                   IF Truthy(customer_email) THEN "cust_by_email" ELSE "lic_query")
    ELSE IF event_type = "transaction.completed"
    THEN IF data.is = "string" THEN ServerError(st, loc, "AttributeError")
         ELSE IF Falsy(data.subscription_id) THEN Goto(st, logged, "commit")
         ELSE LET email == Or(data.billing_details.email, Or(data.customer.email, None))
                  paddle_customer_id == Or(data.customer_id, None)
              IN
              Goto(st, [logged EXCEPT
                          !.subscription_id = data.subscription_id,
                          !.email = email,
                          !.pcid = paddle_customer_id,
                          !.allowed = transaction_allowed(data.items),
                          !.status = Or(data.status, "active")],
                   IF Truthy(paddle_customer_id) THEN "cust_by_id"
                   ELSE IF Truthy(email) THEN "cust_by_email"
                   ELSE "lic_query")
    ELSE IF event_type = "subscription.cancelled"
    THEN IF data.is = "string" THEN ServerError(st, loc, "AttributeError")
         ELSE IF Falsy(data.id) THEN Goto(st, logged, "commit")
         ELSE Goto(st, [logged EXCEPT !.subscription_id = data.id], "cancel_query")
    ELSE Goto(st, logged, "commit")

(* transaction.completed: db.query(Customer).filter(paddle_customer_id == ...) *)
webhook_customer_by_id(st, loc) ==
    LET found == {c \in st.customers : c.pcid = loc.pcid} IN
    IF found # {}
    THEN Goto(st, [loc EXCEPT !.customer_id = (CHOOSE c \in found : TRUE).id],
              "lic_query")
    ELSE Goto(st, loc, IF Truthy(loc.email) THEN "cust_by_email" ELSE "cust_insert")

(* db.query(Customer).filter(Customer.email == email).first() *)
webhook_customer_by_email(st, loc) ==
    LET found == {c \in st.customers : c.email = loc.email} IN
    IF found # {}
    THEN Goto(st, [loc EXCEPT !.customer_id = (CHOOSE c \in found : TRUE).id],
              "lic_query")
    ELSE Goto(st, loc, "cust_insert")

(* the unique indexes and NOT NULL columns of Customer *)
customer_insert_fails(st, email, pcid) ==
    \/ email = None
    \/ \E c \in st.customers : c.email = email
    \/ pcid # None /\ \E c \in st.customers : c.pcid = pcid

(* db.add(customer); db.flush() *)
webhook_customer_insert(st, loc, env) ==
    IF customer_insert_fails(st, loc.email, loc.pcid)
    THEN ServerError(st, loc, "IntegrityError customers")
    ELSE LET id == 1 + Max({c.id : c \in st.customers} \cup env.customer_ids) IN
         Goto(st, [loc EXCEPT
                     !.customer_id = id,
                     !.new_customer = {[id |-> id, email |-> loc.email,
                                        pcid |-> loc.pcid]}],
              "lic_query")

(* db.query(License).filter(paddle_subscription_id == str(subscription_id)).first() *)
webhook_license_query(st, loc) ==
    LET found == LicenseBySub(st, loc.subscription_id) IN
    Goto(st, [loc EXCEPT !.license_id =
                IF found = {} THEN 0 ELSE (CHOOSE l \in found : TRUE).id],
         "lic_write")

(* mutant: License.paddle_subscription_id without its unique index *)
license_insert_never_fails(st, sub) == FALSE

(* the unique index of License.paddle_subscription_id *)
license_insert_fails(st, sub) == \E l \in st.licenses : l.sub = sub

(* Column(String, default="active"): an INSERT with status None takes the default *)
inserted_status(status) == IF status = None THEN "active" ELSE status

(* MagicToken(token=..., license_id=..., expires_at=get_token_expiry()) *)
MagicTokenRow(id, license_id, utcnow) ==
    [id |-> id, license_id |-> license_id, expires_at |-> utcnow + TokenHours,
     used_at |-> Null]

(* mutant: a token for every delivery that carries an email *)
issues_token_on_update(is_new_license, email) == Truthy(email)

(* if is_new_license and customer_email: *)
issues_token(is_new_license, email) == is_new_license /\ Truthy(email)

(* the License is created (and flushed, and its magic token added), or the
   loaded License is changed in the session *)
webhook_license_write(st, loc, env) ==
    IF loc.license_id = 0
    THEN IF license_insert_fails(st, loc.subscription_id)
         THEN ServerError(st, loc, "IntegrityError licenses")
         ELSE LET id == 1 + Max({l.id : l \in st.licenses} \cup env.license_ids)
                  tid == 1 + Max({t.id : t \in st.tokens} \cup env.token_ids)
                  magic_token == MagicTokenRow(tid, id, st.now)
              IN
              Goto(st, [loc EXCEPT
                          !.license_id = id,
                          !.new_license = {[id |-> id, sub |-> loc.subscription_id,
                                            email |-> loc.email,
                                            allowed |-> loc.allowed,
                                            customer_id |-> loc.customer_id,
                                            status |-> inserted_status(loc.status)]},
                          \* try: db.add(magic_token), then the email;
                          \* except Exception: logged, the token stays added
                          !.new_token =
                              IF ~issues_token(TRUE, loc.email) THEN {}
                              ELSE IF send_magic_link_email(loc.smtp_fails) = "raised"
                              THEN {magic_token}
                              ELSE {magic_token}],
                   "commit")
    ELSE LET tid == 1 + Max({t.id : t \in st.tokens} \cup env.token_ids) IN
         Goto(st, [loc EXCEPT
                     !.lic_update =
                        {[id |-> loc.license_id, status |-> loc.status,
                          allowed |-> loc.allowed,
                          set_email |-> (loc.event_type # "transaction.completed"
                                         \/ Truthy(loc.email)),
                          email |-> loc.email,
                          set_customer |-> loc.customer_id # 0,
                          customer_id |-> loc.customer_id]},
                     !.new_token =
                        IF issues_token(FALSE, loc.email)
                        THEN {MagicTokenRow(tid, loc.license_id, st.now)}
                        ELSE {}],
              "commit")

(* mutant: subscription.cancelled logged and not applied *)
webhook_cancel_not_applied(st, loc) == Goto(st, loc, "commit")

(* subscription.cancelled: the License, if there is one, is marked cancelled *)
webhook_cancel(st, loc) ==
    LET found == LicenseBySub(st, loc.subscription_id) IN
    IF found = {} THEN Goto(st, loc, "commit")
    ELSE LET l == CHOOSE x \in found : TRUE IN
         Goto(st, [loc EXCEPT !.lic_update =
                     {[id |-> l.id, status |-> "cancelled", allowed |-> l.allowed,
                       set_email |-> FALSE, email |-> None,
                       set_customer |-> FALSE, customer_id |-> 0]}],
              "commit")

(* mutant: an ordering guard, a cancelled License is never written again *)
ApplyUpdate_unless_cancelled(l, u) ==
    IF l.status = "cancelled" THEN l
    ELSE [l EXCEPT !.status = u.status, !.allowed = u.allowed,
                   !.email = IF u.set_email THEN u.email ELSE @,
                   !.customer_id = IF u.set_customer THEN u.customer_id ELSE @]

(* UPDATE licenses SET ... WHERE id = u.id *)
ApplyUpdate(l, u) ==
    [l EXCEPT !.status = u.status, !.allowed = u.allowed,
              !.email = IF u.set_email THEN u.email ELSE @,
              !.customer_id = IF u.set_customer THEN u.customer_id ELSE @]

(* mutant: the commit without the row of the audit log *)
webhook_commit_drops_log(st, loc) ==
    IF \E u \in loc.lic_update : u.status = None
    THEN ServerError(st, loc, "IntegrityError licenses")
    ELSE Finish([st EXCEPT
                   !.customers = @ \cup loc.new_customer,
                   !.licenses = {IF \E u \in loc.lic_update : u.id = l.id
                                 THEN ApplyUpdate(l, CHOOSE u \in loc.lic_update : u.id = l.id)
                                 ELSE l : l \in @} \cup loc.new_license,
                   !.tokens = @ \cup loc.new_token],
                loc, [NoResp EXCEPT !.http = 200, !.message = "success",
                                    !.event_type = loc.event_type])

(* 5) db.commit() *)
webhook_commit(st, loc) ==
    IF \E u \in loc.lic_update : u.status = None
    THEN ServerError(st, loc, "IntegrityError licenses")   \* NOT NULL on status
    ELSE Finish([st EXCEPT
                   !.logs = Append(@, CHOOSE w \in loc.log : TRUE),
                   !.customers = @ \cup loc.new_customer,
                   !.licenses = {IF \E u \in loc.lic_update : u.id = l.id
                                 THEN ApplyUpdate(l, CHOOSE u \in loc.lic_update : u.id = l.id)
                                 ELSE l : l \in @} \cup loc.new_license,
                   !.tokens = @ \cup loc.new_token],
                loc, [NoResp EXCEPT !.http = 200, !.message = "success",
                                    !.event_type = loc.event_type])

paddle_webhook(st, loc, env) ==
    CASE loc.pc = "recv"          -> webhook_receive(st, loc)
      [] loc.pc = "cust_by_id"    -> webhook_customer_by_id(st, loc)
      [] loc.pc = "cust_by_email" -> webhook_customer_by_email(st, loc)
      [] loc.pc = "cust_insert"   -> webhook_customer_insert(st, loc, env)
      [] loc.pc = "lic_query"     -> webhook_license_query(st, loc)
      [] loc.pc = "lic_write"     -> webhook_license_write(st, loc, env)
      [] loc.pc = "cancel_query"  -> webhook_cancel(st, loc)
      [] loc.pc = "commit"        -> webhook_commit(st, loc)

----------------------------------------------------------------------------
(* GET /api/license/claim *)

ClaimRequest(token, machine_id) ==
    [op |-> "claim", pc |-> "token", token |-> token, machine_id |-> machine_id,
     token_id |-> 0, license_id |-> 0, used_at |-> Null, add_binding |-> FALSE,
     resp |-> NoResp]

InvalidToken ==
    [NoResp EXCEPT !.http = 200, !.success = FALSE,
                   !.message = "Invalid or expired token"]

(* mutant: the filter without MagicToken.used_at.is_(None) *)
redeemable_ignores_used(t, token, utcnow) ==
    /\ t.id = token
    /\ t.expires_at > utcnow

(* mutant: the filter without MagicToken.expires_at > datetime.utcnow() *)
redeemable_ignores_expiry(t, token, utcnow) ==
    /\ t.id = token
    /\ t.used_at = Null

(* filter(MagicToken.token == token, MagicToken.used_at.is_(None),
          MagicToken.expires_at > datetime.utcnow()) *)
redeemable(t, token, utcnow) ==
    /\ t.id = token
    /\ t.used_at = Null
    /\ t.expires_at > utcnow

(* mutant: the token lookup joined with an active license *)
claim_lookup_active_only(st, loc) ==
    LET found == {t \in st.tokens :
                    /\ redeemable(t, loc.token, st.now)
                    /\ \E l \in st.licenses : l.id = t.license_id /\ l.status = "active"} IN
    IF found = {} THEN Finish(st, loc, InvalidToken)
    ELSE LET magic_token == CHOOSE t \in found : TRUE IN
         Goto(st, [loc EXCEPT !.token_id = magic_token.id,
                              !.license_id = magic_token.license_id,
                              !.used_at = {st.now}],
              "binding")

(* the token lookup; magic_token.used_at = utcnow() is set in the session *)
claim_lookup(st, loc) ==
    LET found == {t \in st.tokens : redeemable(t, loc.token, st.now)} IN
    IF found = {} THEN Finish(st, loc, InvalidToken)
    ELSE LET magic_token == CHOOSE t \in found : TRUE IN
         Goto(st, [loc EXCEPT !.token_id = magic_token.id,
                              !.license_id = magic_token.license_id,
                              !.used_at = {st.now}],
              "binding")

(* the binding lookup (the pending UPDATE of the token is flushed with it);
   a missing binding is added to the session *)
claim_binding(st, loc) ==
    Goto(st, [loc EXCEPT !.add_binding =
                             ~BindingExists(st, loc.license_id, loc.machine_id)],
         "commit")

(* db.commit(): used_at and the binding reach the store together *)
claim_commit(st, loc) ==
    Finish([st EXCEPT
              !.tokens = {IF t.id = loc.token_id THEN [t EXCEPT !.used_at = loc.used_at]
                          ELSE t : t \in @},
              !.bindings = IF loc.add_binding
                           THEN @ (+) SetToBag({BindingRow(loc)}) ELSE @],
           loc, [NoResp EXCEPT !.http = 200, !.success = TRUE,
                               !.message = "License claimed successfully",
                               !.license_id = loc.license_id])

claim_license(st, loc) ==
    CASE loc.pc = "token"   -> claim_lookup(st, loc)
      [] loc.pc = "binding" -> claim_binding(st, loc)
      [] loc.pc = "commit"  -> claim_commit(st, loc)

----------------------------------------------------------------------------
(* GET /api/license/magic-link/verify *)

MagicLinkVerifyRequest(token) ==
    [op |-> "magic_link_verify", pc |-> "token", token |-> token,
     license_id |-> 0, resp |-> NoResp]

magic_link_lookup(st, loc) ==
    LET found == {t \in st.tokens : redeemable(t, loc.token, st.now)} IN
    IF found = {} THEN Finish(st, loc, HttpError(404, "Invalid or expired token"))
    ELSE Goto(st, [loc EXCEPT !.license_id = (CHOOSE t \in found : TRUE).license_id],
              "license")

magic_link_license(st, loc) ==
    LET found == LicenseById(st, loc.license_id) IN
    IF found = {} THEN Finish(st, loc, HttpError(404, "License not found"))
    ELSE LET license_obj == CHOOSE l \in found : TRUE IN
         Finish(st, loc, [NoResp EXCEPT !.http = 200, !.valid = TRUE,
                                        !.license_id = license_obj.id,
                                        !.license_key = license_obj.sub,
                                        !.status = license_obj.status,
                                        !.allowed = license_obj.allowed])

verify_magic_link(st, loc) ==
    CASE loc.pc = "token"   -> magic_link_lookup(st, loc)
      [] loc.pc = "license" -> magic_link_license(st, loc)

----------------------------------------------------------------------------
(* POST /api/license/request-magic-link *)

RequestMagicLinkRequest(license_key, email, smtp_fails) ==
    [op |-> "request_magic_link", pc |-> "license", license_key |-> license_key,
     email |-> email, smtp_fails |-> smtp_fails, new_token |-> {},
     resp |-> NoResp]

(* mutant: the lookup without the check of License.status *)
request_magic_link_token_any_status(st, loc, env) ==
    LET found == LicenseBySub(st, loc.license_key) IN
    IF found = {}
    THEN Finish(st, loc, HttpError(404, "License not found or inactive"))
    ELSE LET license_obj == CHOOSE l \in found : TRUE
             email == Or(loc.email, license_obj.email)
             tid == 1 + Max({t.id : t \in st.tokens} \cup env.token_ids)
         IN
         IF Falsy(email)
         THEN Finish(st, loc, HttpError(400, "Email address is required"))
         ELSE Goto(st, [loc EXCEPT !.new_token =
                          {[id |-> tid, license_id |-> license_obj.id,
                            expires_at |-> st.now + TokenHours,
                            used_at |-> Null]}],
                   "commit")

(* the license lookup, the email of the request or of the license, and the
   MagicToken added to the session *)
request_magic_link_token(st, loc, env) ==
    LET found == LicenseBySub(st, loc.license_key) IN
    IF found = {} \/ (CHOOSE l \in found : TRUE).status # "active"
    THEN Finish(st, loc, HttpError(404, "License not found or inactive"))
    ELSE LET license_obj == CHOOSE l \in found : TRUE
             email == Or(loc.email, license_obj.email)
             tid == 1 + Max({t.id : t \in st.tokens} \cup env.token_ids)
         IN
         IF Falsy(email)
         THEN Finish(st, loc, HttpError(400, "Email address is required"))
         ELSE Goto(st, [loc EXCEPT !.new_token =
                          {[id |-> tid, license_id |-> license_obj.id,
                            expires_at |-> st.now + TokenHours,
                            used_at |-> Null]}],
                   "commit")

(* db.commit(): the token reaches the store before the email is sent *)
request_magic_link_commit(st, loc) ==
    Goto([st EXCEPT !.tokens = @ \cup loc.new_token], loc, "send")

(* the email is sent outside any try block: an exception of the sender would
   reach the framework *)
request_magic_link_send(st, loc) ==
    IF send_magic_link_email(loc.smtp_fails) = "raised"
    THEN Finish(st, loc, HttpError(500, "SMTPException"))
    ELSE Finish(st, loc, [NoResp EXCEPT !.http = 200, !.success = TRUE,
                                        !.message = "Magic link sent to email"])

request_magic_link(st, loc, env) ==
    CASE loc.pc = "license" -> request_magic_link_token(st, loc, env)
      [] loc.pc = "commit"  -> request_magic_link_commit(st, loc)
      [] loc.pc = "send"    -> request_magic_link_send(st, loc)

----------------------------------------------------------------------------
(* A flush waits while another open transaction holds the unique key it
   inserts, or has updated and not yet committed the row it updates. *)
Blocked(loc, env) ==
    \/ /\ loc.op = "webhook"
       /\ \/ /\ loc.pc = "cust_insert"
             /\ loc.email \in env.emails \/ (loc.pcid # None /\ loc.pcid \in env.pcids)
          \/ /\ loc.pc = "lic_write"
             /\ loc.license_id = 0
             /\ loc.subscription_id \in env.subs
    \/ /\ loc.op = "claim"
       /\ loc.pc = "binding"
       /\ loc.token_id \in env.token_updates

----------------------------------------------------------------------------
(* Running a handler *)

Step(st, loc, env) ==
    CASE loc.op = "verify"           -> verify_license(st, loc)
      [] loc.op = "webhook"          -> paddle_webhook(st, loc, env)
      [] loc.op = "reset_containers" -> reset_containers(st, loc)
      [] loc.op = "reset_machines"   -> reset_machines(st, loc)
      [] loc.op = "claim"            -> claim_license(st, loc)
      [] loc.op = "magic_link_verify" -> verify_magic_link(st, loc)
      [] loc.op = "request_magic_link" -> request_magic_link(st, loc, env)

(* the handler run from its first statement to its response, alone *)
RECURSIVE Run(_, _)
Run(st, loc) ==
    IF loc.pc = "done" THEN [st |-> st, loc |-> loc]
    ELSE LET r == Step(st, loc, NoEnv) IN Run(r.st, r.loc)

Idle == [op |-> "idle", pc |-> "done", resp |-> NoResp]

SetStoreInit ==
    /\ licenses = {}
    /\ customers = {}
    /\ usages = EmptyBag
    /\ bindings = EmptyBag
    /\ tokens = {}
    /\ logs = <<>>

SetStore(st) ==
    /\ licenses' = st.licenses
    /\ customers' = st.customers
    /\ usages' = st.usages
    /\ bindings' = st.bindings
    /\ tokens' = st.tokens
    /\ logs' = st.logs

(* one request served from start to end *)
Serve(request) ==
    LET r == Run(Store, request) IN
    /\ SetStore(r.st)
    /\ resp' = r.loc.resp
    /\ UNCHANGED <<now, procs>>

----------------------------------------------------------------------------
(* Inputs *)

(* the clock advances by the lifetime of a magic token; a signature's ts is
   one of the clock's past or present values *)
Times == {t \in 0..now : t % TokenHours = 0}

ValidHeader(ts, body) ==
    <<Part("ts", ts),
      Part("h1", hmac_hexdigest(paddle_webhook_secret, signed_payload(ts, body)))>>

ForgedHeader(ts, body) ==
    <<Part("ts", ts), Part("h1", hmac_hexdigest("guess", signed_payload(ts, body)))>>

Customer(email, id) == [email |-> email, id |-> id]
NoCustomer == Customer(Absent, Absent)

SubscriptionEvent(event_type, sub, status, customer, items) ==
    Body(event_type, Data(sub, Absent, status, customer, Absent, Absent, items))

TransactionCompleted(sub, status, customer_id, billing_email, items) ==
    Body("transaction.completed",
         Data("txn1", sub, status, NoCustomer, customer_id, billing_email, items))

(* the bodies that create and change the licenses the verify endpoint serves *)
QuotaBodies ==
    { SubscriptionEvent("subscription.created", "s1", Absent,
                        Customer("a@x", "ctm1"), <<>>),
      SubscriptionEvent("subscription.updated", "s1", "active",
                        Customer("a@x", "ctm1"), <<Item("enterprise", Absent, 1)>>),
      TransactionCompleted("s1", Absent, "ctm1", "a@x", <<Item("team", Absent, 2)>>),
      SubscriptionEvent("subscription.cancelled", "s1", Absent, NoCustomer, <<>>) }

(* the bodies of the webhook endpoint's own cases *)
HookBodies ==
    { InvalidJson, ArrayJson, NotUtf8,
      SubscriptionEvent("subscription.created", "s2", "active",
                        Customer("b@x", "ctm1"), <<Item("Pro", Absent, 1)>>),
      SubscriptionEvent("Subscription.Created", "s2", Absent,
                        Customer("b@x", Absent), <<Item(Absent, "pro", 1)>>),
      SubscriptionEvent("subscription.updated", "s1", None, NoCustomer, <<>>),
      SubscriptionEvent("subscription.past_due", "s1", Absent, NoCustomer, <<>>) }

Bodies == QuotaBodies \cup HookBodies

Headers(body) ==
    {<<>>, <<BarePart>>, <<Part("ts", now)>>, ForgedHeader(now, body)}
    \cup {ValidHeader(t, body) : t \in Times}
    \cup {ValidHeader(now, other) : other \in QuotaBodies \ {body}}

Keys == Subs \cup {"s9"}

----------------------------------------------------------------------------
(* Spec: requests served one after another *)

Init ==
    /\ SetStoreInit
    /\ now = 0
    /\ procs = [p \in Procs |-> Idle]
    /\ resp = NoResp

Verify(key, machine_id, container_id) ==
    /\ BagCardinality(usages) < MaxUsage
    /\ Serve(VerifyRequest(key, machine_id, container_id))

Webhook(header, body) ==
    /\ Len(logs) < MaxLog
    /\ Serve(WebhookRequest(header, body))

ResetContainers(license_id, key) ==
    Serve(ResetRequest("reset_containers", license_id, key))

ResetMachines(license_id, key) ==
    Serve(ResetRequest("reset_machines", license_id, key))

Tick ==
    /\ now < MaxTime
    /\ now' = now + TokenHours
    /\ UNCHANGED <<tables, procs, resp>>

VerifyCall ==
    \E key \in Keys, m \in Machines, c \in Containers \cup {None} : Verify(key, m, c)

(* a delivery that Paddle signed just now *)
LicenseWebhookCall == \E body \in QuotaBodies : Webhook(ValidHeader(now, body), body)

ResetContainersCall ==
    \E id \in 1..2, key \in AdminKeys : ResetContainers(id, key)

ResetMachinesCall ==
    \E id \in 1..2, key \in AdminKeys : ResetMachines(id, key)

Next ==
    \/ VerifyCall
    \/ LicenseWebhookCall
    \/ ResetContainersCall
    \/ ResetMachinesCall

Spec == Init /\ [][Next]_vars

----------------------------------------------------------------------------
(* SpecHook: webhook deliveries of every kind, served one after another,
   while the clock advances *)

WebhookCall == \E body \in Bodies : \E header \in Headers(body) : Webhook(header, body)

NextHook ==
    \/ WebhookCall
    \/ Tick

SpecHook == Init /\ [][NextHook]_vars

----------------------------------------------------------------------------
(* SpecEvents: correctly signed deliveries of every kind of event, served one
   after another *)

EventBodies ==
    QuotaBodies \cup
    { InvalidJson,
      SubscriptionEvent("subscription.past_due", "s1", Absent, NoCustomer, <<>>),
      SubscriptionEvent(Absent, "s1", "active", Customer("a@x", "ctm1"), <<>>),
      SubscriptionEvent("subscription.cancelled", "s2", Absent, NoCustomer, <<>>),
      [SubscriptionEvent(Absent, "s1", "active", NoCustomer, <<>>)
           EXCEPT !.event = "subscription.trialing"],
      TransactionCompleted(Absent, "completed", "ctm2", "b@x",
                           <<Item("pro", Absent, 1)>>) }

EventCall == \E body \in EventBodies : Webhook(ValidHeader(now, body), body)

NextEvents == EventCall

SpecEvents == Init /\ [][NextEvents]_vars

----------------------------------------------------------------------------
(* SpecToken: licenses and their magic tokens are issued by webhook
   deliveries; tokens are redeemed and looked up while the clock advances *)

TokenBodies ==
    { SubscriptionEvent("subscription.created", "s1", Absent,
                        Customer("a@x", "ctm1"), <<>>),
      SubscriptionEvent("subscription.created", "s2", Absent,
                        Customer("b@x", "ctm2"), <<>>) }

(* the token strings a caller presents: those issued, and one never issued *)
TokenInputs == {t.id : t \in tokens} \cup {0}

Claim(token, machine_id) == Serve(ClaimRequest(token, machine_id))

MagicLinkVerify(token) == Serve(MagicLinkVerifyRequest(token))

IssueCall ==
    \E body \in TokenBodies, smtp_fails \in BOOLEAN :
        /\ Len(logs) < MaxLog
        /\ Serve([WebhookRequest(ValidHeader(now, body), body)
                     EXCEPT !.smtp_fails = smtp_fails])


ClaimCall == \E token \in TokenInputs, m \in Machines : Claim(token, m)

MagicLinkVerifyCall == \E token \in TokenInputs : MagicLinkVerify(token)

NextToken ==
    \/ IssueCall
    \/ ClaimCall
    \/ MagicLinkVerifyCall
    \/ Tick

SpecToken == Init /\ [][NextToken]_vars

----------------------------------------------------------------------------
(* SpecOrder: the deliveries of one subscription arrive in any order, one
   more of them than MaxLog, between verify calls of one machine *)

OrderBodies ==
    QuotaBodies \cup
    { SubscriptionEvent("subscription.updated", "s1", Absent,
                        Customer("a@x", "ctm1"), <<>>) }

OrderWebhookCall ==
    \E body \in OrderBodies :
        /\ Len(logs) <= MaxLog
        /\ Serve(WebhookRequest(ValidHeader(now, body), body))

OrderVerifyCall == \E c \in {"c1", "c2"} : Verify("s1", "m1", c)

NextOrder ==
    \/ OrderWebhookCall
    \/ OrderVerifyCall

SpecOrder == Init /\ [][NextOrder]_vars

----------------------------------------------------------------------------
(* SpecLink: magic links are requested for licenses with and without an
   email, active and cancelled, and the links are redeemed *)

LinkBodies ==
    { SubscriptionEvent("subscription.created", "s1", Absent,
                        Customer("a@x", "ctm1"), <<>>),
      SubscriptionEvent("subscription.created", "s2", Absent, NoCustomer, <<>>),
      SubscriptionEvent("subscription.cancelled", "s1", Absent, NoCustomer, <<>>) }

(* the email of a magic-link request: none, empty, or an address *)
RequestEmails == {None, "", "c@x"}

RequestMagicLink(license_key, email, smtp_fails) ==
    /\ Cardinality(tokens) < MaxTokens
    /\ Serve(RequestMagicLinkRequest(license_key, email, smtp_fails))

LinkIssueCall ==
    \E body \in LinkBodies, smtp_fails \in BOOLEAN :
        /\ Len(logs) < MaxLog
        /\ Serve([WebhookRequest(ValidHeader(now, body), body)
                     EXCEPT !.smtp_fails = smtp_fails])

RequestMagicLinkCall ==
    \E key \in Keys, email \in RequestEmails, smtp_fails \in BOOLEAN :
        RequestMagicLink(key, email, smtp_fails)

LinkClaimCall == \E token \in TokenInputs : Claim(token, "m1")

NextLink ==
    \/ LinkIssueCall
    \/ RequestMagicLinkCall
    \/ LinkClaimCall
    \/ Tick

SpecLink == Init /\ [][NextLink]_vars

----------------------------------------------------------------------------
(* SpecFrame: two licenses, each verified, claimed and reset, with magic
   links requested in between *)

FrameWebhookCall == \E body \in TokenBodies : Webhook(ValidHeader(now, body), body)

FrameVerifyCall == \E key \in Subs, c \in {"c1", None} : Verify(key, "m1", c)

FrameClaimCall == \E t \in tokens : Claim(t.id, "m2")

FrameResetCall ==
    \E op \in {"reset_containers", "reset_machines"}, id \in 1..2 :
        Serve(ResetRequest(op, id, AdminApiKey))

FrameMagicLinkCall == \E email \in {None, "c@x"} : RequestMagicLink("s1", email, FALSE)

NextFrame ==
    \/ FrameWebhookCall
    \/ FrameVerifyCall
    \/ FrameClaimCall
    \/ FrameResetCall
    \/ FrameMagicLinkCall

SpecFrame == Init /\ [][NextFrame]_vars

----------------------------------------------------------------------------
(* SpecConc: the handlers of concurrent requests, one statement at a time *)

InFlight(op) == {p \in Procs : procs[p].op = op /\ procs[p].pc # "done"}

(* what the open transactions other than p's hold *)
Env(p) ==
    LET others == InFlight("webhook") \ {p}
        new_customers == UNION {procs[q].new_customer : q \in others}
        new_licenses == UNION {procs[q].new_license : q \in others}
        new_tokens == UNION {procs[q].new_token : q \in others}
    IN  [emails |-> {c.email : c \in new_customers},
         pcids |-> {c.pcid : c \in new_customers} \ {None},
         subs |-> {l.sub : l \in new_licenses},
         customer_ids |-> {c.id : c \in new_customers},
         license_ids |-> {l.id : l \in new_licenses},
         token_ids |-> {t.id : t \in new_tokens},
         token_updates |-> {procs[q].token_id :
                               q \in {r \in InFlight("claim") \ {p} :
                                          procs[r].pc = "commit"}}]

(* a request that has been answered: its locals are gone *)
Done(loc) == [op |-> loc.op, pc |-> "done", resp |-> loc.resp]

Start(p, request) ==
    /\ procs[p].pc = "done"
    /\ procs' = [procs EXCEPT ![p] = request]
    /\ UNCHANGED <<tables, now, resp>>

StartVerify(p) ==
    /\ BagCardinality(usages) + Cardinality(InFlight("verify")) < MaxUsage
    /\ \E c \in {"c1", "c2"} : Start(p, VerifyRequest("s1", "m1", c))

(* the deliveries that race: two that create the license s1, one that changes it *)
ConcBodies ==
    { SubscriptionEvent("subscription.created", "s1", Absent,
                        Customer("a@x", "ctm1"), <<>>),
      SubscriptionEvent("subscription.created", "s1", Absent, NoCustomer, <<>>) }

StartWebhook(p) ==
    /\ Len(logs) + Cardinality(InFlight("webhook")) < MaxLog
    /\ \E body \in ConcBodies : Start(p, WebhookRequest(ValidHeader(now, body), body))

(* the next statement of the request that p serves *)
ProcStep(p, op) ==
    /\ procs[p].op = op
    /\ procs[p].pc # "done"
    /\ ~Blocked(procs[p], Env(p))
    /\ LET r == Step(Store, procs[p], Env(p)) IN
       /\ SetStore(r.st)
       /\ procs' = [procs EXCEPT ![p] = IF r.loc.pc = "done" THEN Done(r.loc)
                                        ELSE r.loc]
    /\ UNCHANGED <<now, resp>>

(* a holder of a token redeems it *)
StartClaim(p) ==
    \E t \in tokens : Start(p, ClaimRequest(t.id, "m1"))

VerifyStep(p) == ProcStep(p, "verify")

ClaimStep(p) == ProcStep(p, "claim")

WebhookStep(p) == ProcStep(p, "webhook")

NextConc ==
    \E p \in Procs :
        \/ StartVerify(p)
        \/ StartWebhook(p)
        \/ StartClaim(p)
        \/ VerifyStep(p)
        \/ WebhookStep(p)
        \/ ClaimStep(p)

SpecConc == Init /\ [][NextConc]_vars

(* ------------------------------------------------------------------ *)
(* Deliveries under provider retry: every worker serves one delivery   *)
(* statement by statement, and a delivery answered non-2xx is sent     *)
(* again with the same body until it is answered 2xx.                  *)
(* ------------------------------------------------------------------ *)

(* first deliveries of subscription s1: the subscription event with and
   without a customer, and the transaction naming its customer by id *)
RetryBodies ==
    ConcBodies \cup {TransactionCompleted("s1", Absent, "ctm3", Absent, <<>>)}

RetryStart(p) ==
    /\ procs[p].op = "idle"
    /\ \E body \in RetryBodies : Start(p, WebhookRequest(ValidHeader(now, body), body))

(* the next statement of the delivery that p serves; the answered delivery
   stays with the provider *)
RetryStep(p) ==
    /\ procs[p].op = "webhook"
    /\ procs[p].pc # "done"
    /\ ~Blocked(procs[p], Env(p))
    /\ LET r == Step(Store, procs[p], Env(p)) IN
       /\ SetStore(r.st)
       /\ procs' = [procs EXCEPT ![p] = r.loc]
    /\ UNCHANGED <<now, resp>>

(* the provider sends a delivery again that was answered non-2xx *)
Redeliver(p) ==
    /\ procs[p].op = "webhook"
    /\ procs[p].pc = "done"
    /\ procs[p].resp.http \notin 200..299
    /\ procs' = [procs EXCEPT ![p] =
                    WebhookRequest(ValidHeader(now, procs[p].body), procs[p].body)]
    /\ UNCHANGED <<tables, now, resp>>

NextRetry ==
    \E p \in Procs :
        \/ RetryStart(p)
        \/ RetryStep(p)
        \/ Redeliver(p)

SpecRetry ==
    /\ Init
    /\ [][NextRetry]_vars
    /\ \A p \in Procs : WF_vars(RetryStep(p)) /\ WF_vars(Redeliver(p))

----------------------------------------------------------------------------
(* Claims about the verify endpoint, requests served one after another *)

NewUsage(l, m, c) ==
    SetToBag({[license_id |-> l.id, machine_id |-> m, container_id |-> c]})

(* the store and the response after the request is served in this state *)
After(request) == Run(Store, request)

(* C2: on an active license with allowed_containers = N >= 1, a verify call
   with a container id is answered valid exactly when the container is
   already counted or fewer than N rows exist; an admitted new container adds
   exactly its row, a refused one is answered "Container limit reached" and
   adds nothing.  From no rows, the first N distinct containers are therefore
   admitted and every later new one refused, and an admitted one re-verifies. *)
C2_SequentialQuota ==
    \A l \in licenses : \A m \in Machines, c \in Containers :
        (l.status = "active" /\ l.allowed >= 1)
        => LET counted == UsageExists(Store, l.id, c)
               n == UsageCount(Store, l.id)
               r == After(VerifyRequest(l.sub, m, c))
               answer == r.loc.resp
           IN  /\ answer.http = 200
               /\ answer.valid <=> (counted \/ n < l.allowed)
               /\ ~answer.valid => /\ answer.message = "Container limit reached"
                                   /\ r.st.usages = usages
               /\ (answer.valid /\ ~counted) => r.st.usages = usages (+) NewUsage(l, m, c)
               /\ (answer.valid /\ counted) => r.st.usages = usages

(* the third distinct container of a license with allowed_containers = 2 was
   refused *)
C2_Witness ==
    /\ resp.message = "Container limit reached"
    /\ resp.allowed = 2
    /\ resp.usage = 2
    /\ \E l \in licenses : l.allowed = 2 /\ UsageCount(Store, l.id) = 2

(* C3: a verify call on an active license for a container that already has a
   usage row is answered valid, whatever the usage count, and leaves the
   usage rows as they are. *)
C3_ReverifyIdempotent ==
    \A l \in licenses : \A m \in Machines, c \in Containers :
        (l.status = "active" /\ UsageExists(Store, l.id, c))
        => LET r == After(VerifyRequest(l.sub, m, c)) IN
           /\ r.loc.resp.valid
           /\ r.st.usages = usages
           /\ r.loc.resp.usage = UsageCount(Store, l.id)

(* a counted container was re-verified while the license is over its limit *)
C3_Witness ==
    /\ resp.valid
    /\ resp.allowed >= 1
    /\ resp.usage > resp.allowed

(* C5: a verify call on an active license with allowed_containers = -1 is
   answered valid, whatever the usage count, with or without a container id. *)
C5_UnlimitedNeverRejects ==
    \A l \in licenses : \A m \in Machines, c \in Containers \cup {None} :
        (l.status = "active" /\ l.allowed = Unlimited)
        => After(VerifyRequest(l.sub, m, c)).loc.resp.valid

(* an unlimited license that holds two usage rows answered valid *)
C5_Witness ==
    /\ resp.valid
    /\ resp.allowed = Unlimited
    /\ resp.usage >= 2

----------------------------------------------------------------------------
(* Claims about concurrent requests *)

(* C1: concurrent verify calls never over-admit: no step takes the usage
   rows of a license that the step leaves unchanged, and whose
   allowed_containers is N # -1, from at most N to more than N. *)
C1_NoOverAdmission ==
    [][\A l \in licenses :
          (l \in licenses' /\ l.allowed # Unlimited
           /\ UsageCount(Store, l.id) <= l.allowed)
          => BagCardinality(BagWithout(usages', LAMBDA u : u.license_id # l.id))
                 <= l.allowed
      ]_vars

(* C4: at most one LicenseUsage row per (license_id, container_id) with a
   container id, in every reachable state. *)
C4_OneRowPerContainer ==
    \A u \in BagToSet(usages), v \in BagToSet(usages) :
        (u.license_id = v.license_id /\ u.container_id = v.container_id
         /\ u.container_id # None)
        => (u = v /\ usages[u] = 1)

AtMostOneLicensePerSubscription ==
    \A l1 \in licenses, l2 \in licenses : l1.sub = l2.sub => l1 = l2

NoLicenseDeleted ==
    \A l \in licenses : \E k \in licenses' : k.id = l.id /\ k.sub = l.sub

(* C7: in every reachable state at most one License row exists per
   subscription id, and no step deletes a License row or changes its
   subscription id. *)
C7_SubscriptionIdUnique ==
    [](AtMostOneLicensePerSubscription) /\ [][NoLicenseDeleted]_vars

(* two first deliveries for one subscription raced: one was committed, the
   other failed on the unique index *)
C7_Witness ==
    /\ \E l \in licenses : l.sub = "s1"
    /\ \E p \in Procs : procs[p].resp.message = "IntegrityError licenses"

----------------------------------------------------------------------------
(* Claims about the webhook endpoint, deliveries served one after another *)

Delivery(header, body) == After(WebhookRequest(header, body))

(* hex(HMAC-SHA256(secret, "ts:body")) *)
ExpectedDigest(ts, body) ==
    [key |-> paddle_webhook_secret, msg |-> <<ts, ":", body>>]

CreatedWithEmail ==
    {body \in Bodies : /\ body.json = "object"
                       /\ body.event_type = "subscription.created"
                       /\ Truthy(body.data.id)
                       /\ Truthy(body.data.customer.email)}

(* C6: a signed subscription.created delivery with a subscription id and a
   customer email, processed twice in a row, leaves exactly one License row
   for the subscription id and exactly one Customer row for the email, and
   the second processing creates no row. *)
C6_ReplayLeavesOneRow ==
    \A body \in CreatedWithEmail :
        LET request == WebhookRequest(ValidHeader(now, body), body)
            first == Run(Store, request)
            second == Run(first.st, request)
        IN  /\ Cardinality({l \in second.st.licenses : l.sub = body.data.id}) = 1
            /\ Cardinality({c \in second.st.customers :
                               c.email = body.data.customer.email}) = 1
            /\ {l.id : l \in second.st.licenses} = {l.id : l \in first.st.licenses}
            /\ second.st.customers = first.st.customers

(* C8: a delivery whose header has ts and h1, with h1 other than the digest
   of "ts:body" under the secret, is answered 401 and changes no table,
   whatever the bytes of the body. *)
C8_TamperRejected ==
    \A body \in Bodies : \A header \in Headers(body) :
        (/\ header_has(header, "ts") /\ header_has(header, "h1")
         /\ header_value(header, "h1")
                # ExpectedDigest(header_value(header, "ts"), body))
        => LET r == Delivery(header, body) IN
           /\ r.loc.resp.http = 401
           /\ r.st = Store

(* C9: a delivery with the right digest for its ts and body, whose ts is
   older than the clock, is refused and changes no table. *)
C9_StaleRejected ==
    \A body \in Bodies : \A ts \in Times :
        ts < now
        => LET r == Delivery(ValidHeader(ts, body), body) IN
           /\ r.loc.resp.http \in {400, 401}
           /\ r.st = Store

EveryVerifiedDeliveryLogged ==
    \A body \in Bodies : \A ts \in Times :
        Len(Delivery(ValidHeader(ts, body), body).st.logs) = Len(logs) + 1

LogsAppendOnly ==
    /\ Len(logs') >= Len(logs)
    /\ SubSeq(logs', 1, Len(logs)) = logs

(* C10: every delivery whose signature verifies adds exactly one WebhookLog
   row, whatever its body and the store, and no step changes or removes a
   row of the log. *)
C10_OneLogRowPerDelivery ==
    [](EveryVerifiedDeliveryLogged) /\ [][LogsAppendOnly]_vars

(* C11: every correctly signed delivery whose body is text - a JSON object
   of any shape, or no JSON at all - is answered 200, with status success
   (ignored for the body that is no JSON), in every store state. *)
C11_VerifiedDeliveryAcknowledged ==
    \A body \in Bodies : \A ts \in Times :
        body.json \in {"object", "invalid"}
        => LET answer == Delivery(ValidHeader(ts, body), body).loc.resp IN
           /\ answer.http = 200
           /\ answer.message = IF body.json = "invalid" THEN "ignored" ELSE "success"

(* C12: a correctly signed delivery whose body is no JSON appends one
   WebhookLog row with event_type "invalid_json" to the committed store,
   changes nothing else, and is answered 200 / ignored. *)
C12_InvalidJsonLogged ==
    \A ts \in Times :
        LET header == ValidHeader(ts, InvalidJson)
            r == Delivery(header, InvalidJson)
        IN  /\ r.st = [Store EXCEPT
                          !.logs = Append(@, WebhookLog("invalid_json", InvalidJson,
                                                        header))]
            /\ r.loc.resp.http = 200
            /\ r.loc.resp.message = "ignored"

(* a server that holds a license has logged and ignored a body that is no
   JSON *)
C12_Witness ==
    /\ resp.message = "ignored"
    /\ licenses # {}
    /\ logs # <<>>
    /\ logs[Len(logs)].event_type = "invalid_json"

----------------------------------------------------------------------------
(* Claims about magic tokens, requests served one after another *)

OtherTables(st) == [st EXCEPT !.tokens = {}, !.bindings = EmptyBag]

(* C13: for a token with used_at NULL and now < expires_at, a claim answers
   success, sets used_at = now on that token only, leaves a MachineBinding
   for (license_id, machine_id), writes nothing before its commit, and a
   second claim with the token right after it is refused with "Invalid or
   expired token" and changes nothing; and every token that has used_at set
   is refused while it is still unexpired. *)
C13_TokenSingleUse ==
    \A t \in tokens : \A m \in Machines :
        IF t.used_at = Null /\ now < t.expires_at
        THEN LET request == ClaimRequest(t.id, m)
                 lookup == Step(Store, request, NoEnv)
                 binding == Step(lookup.st, lookup.loc, NoEnv)
                 first == After(request)
             IN  /\ lookup.st = Store /\ binding.st = Store
                 /\ first.loc.resp.success
                 /\ first.loc.resp.license_id = t.license_id
                 /\ first.st.tokens = (tokens \ {t}) \cup {[t EXCEPT !.used_at = {now}]}
                 /\ BindingExists(first.st, t.license_id, m)
                 /\ OtherTables(first.st) = OtherTables(Store)
                 /\ \A m2 \in Machines :
                        LET second == Run(first.st, ClaimRequest(t.id, m2)) IN
                        /\ ~second.loc.resp.success
                        /\ second.loc.resp.message = "Invalid or expired token"
                        /\ second.st = first.st
        ELSE t.used_at # Null
             => LET later == After(ClaimRequest(t.id, m)) IN
                /\ ~later.loc.resp.success
                /\ later.loc.resp.message = "Invalid or expired token"

(* a claim was refused in a store whose every token is redeemed and not yet
   expired, with the binding of the first claim in place *)
C13_Witness ==
    /\ resp.message = "Invalid or expired token"
    /\ tokens # {}
    /\ \A t \in tokens : /\ t.used_at # Null
                         /\ now < t.expires_at
                         /\ \E m \in Machines : BindingExists(Store, t.license_id, m)

(* C15: GET /api/license/magic-link/verify with a token that claim has
   redeemed and that has not expired answers 200 with the snapshot of the
   token's license. *)
C15_UsedTokenStillViews ==
    \A t \in tokens :
        (t.used_at # Null /\ now < t.expires_at)
        => LET answer == After(MagicLinkVerifyRequest(t.id)).loc.resp IN
           /\ answer.http = 200
           /\ answer.valid
           /\ answer.license_id = t.license_id

(* C16: a claim with a token that is unknown, or has used_at set, or has
   now >= expires_at, answers success = false and leaves the whole store,
   tokens and bindings included, as it was. *)
C16_InvalidClaimChangesNothing ==
    \A token \in TokenInputs : \A m \in Machines :
        (\A t \in tokens : t.id = token => (t.used_at # Null \/ now >= t.expires_at))
        => LET r == After(ClaimRequest(token, m)) IN
           /\ r.loc.resp.http = 200
           /\ ~r.loc.resp.success
           /\ r.st = Store

(* a claim was refused while the store holds an unused token that has
   expired and a used one *)
C16_Witness ==
    /\ resp.message = "Invalid or expired token"
    /\ \E t \in tokens : t.used_at = Null /\ now >= t.expires_at
    /\ \E t \in tokens : t.used_at # Null

----------------------------------------------------------------------------
(* Claims about concurrent claim calls *)

(* C14: while the store holds one MagicToken, at most one of the claim calls
   that have been answered, under any interleaving of their statements, was
   answered success = true. *)
C14_AtMostOneClaimSucceeds ==
    Cardinality(tokens) <= 1
    => Cardinality({p \in Procs : /\ procs[p].op = "claim"
                                  /\ procs[p].pc = "done"
                                  /\ procs[p].resp.success}) <= 1

----------------------------------------------------------------------------
(* Claims about resets, refusals and cancellation, requests served one after
   another *)

ResetOf(l) == After(ResetRequest("reset_containers", l.id, AdminApiKey))

(* C17: reset-containers with the admin key leaves the license without
   LicenseUsage rows and every other row as it was; and on an active license
   with allowed_containers = N >= 1, a new container id that is refused for
   the limit before the reset is answered valid with current_usage = 1 when
   it is verified right after the reset. *)
C17_ResetClearsAndUnblocks ==
    \A l \in licenses :
        LET reset == ResetOf(l) IN
        /\ reset.loc.resp.http = 200
        /\ UsageCount(reset.st, l.id) = 0
        /\ reset.st.usages = BagWithout(usages, LAMBDA u : u.license_id = l.id)
        /\ [reset.st EXCEPT !.usages = usages] = Store
        /\ \A m \in Machines, c \in Containers :
              LET request == VerifyRequest(l.sub, m, c)
                  before == After(request).loc.resp
                  after == Run(reset.st, request).loc.resp
              IN  (~before.valid /\ before.message = "Container limit reached")
                  => (after.valid /\ after.usage = 1)

(* the containers of a license with allowed_containers = 1 that was at its
   limit, verified from two machines, have been reset *)
C17_Witness ==
    /\ resp.message = "Container usage reset"
    /\ \E l \in licenses :
          /\ l.allowed = 1 /\ l.status = "active"
          /\ UsageCount(Store, l.id) = 0
          /\ \A m \in Machines : BindingExists(Store, l.id, m)

(* C18: a verify call answered valid = false - key unknown, license not
   active, or limit reached, with or without a container id - is answered
   with HTTP 200 and leaves the store as it was. *)
C18_RefusedVerifyChangesNothing ==
    \A key \in Keys, m \in Machines, c \in Containers \cup {None} :
        LET r == After(VerifyRequest(key, m, c)) IN
        ~r.loc.resp.valid
        => /\ r.loc.resp.http = 200
           /\ r.st = Store
           /\ \/ LicenseBySub(Store, key) = {}
              \/ \E l \in LicenseBySub(Store, key) : l.status # "active"
              \/ r.loc.resp.message = "Container limit reached"

(* a verify call from a machine that is not bound was refused for the limit *)
C18_Witness ==
    /\ resp.http = 200 /\ ~resp.valid
    /\ resp.message = "Container limit reached"
    /\ \E l \in licenses : /\ BindingExists(Store, l.id, "m1")
                           /\ ~BindingExists(Store, l.id, "m2")

Cancelled(sub) == SubscriptionEvent("subscription.cancelled", sub, Absent, NoCustomer, <<>>)

(* C19: a correctly signed subscription.cancelled for a subscription id is
   answered 200 / success and appends its WebhookLog row; the License with
   that id, if there is one, gets status "cancelled" and nothing else of the
   store changes; a License with status "cancelled" is refused by verify. *)
C19_CancelMarksLicense ==
    /\ \A sub \in Subs :
          LET body == Cancelled(sub)
              header == ValidHeader(now, body)
              r == Delivery(header, body)
          IN  /\ r.loc.resp.http = 200 /\ r.loc.resp.message = "success"
              /\ r.st = [Store EXCEPT
                           !.logs = Append(@, WebhookLog("subscription.cancelled",
                                                         body, header)),
                           !.licenses = {IF l.sub = sub
                                         THEN [l EXCEPT !.status = "cancelled"]
                                         ELSE l : l \in @}]
    /\ \A l \in licenses : \A m \in Machines, c \in Containers \cup {None} :
          l.status = "cancelled" => ~After(VerifyRequest(l.sub, m, c)).loc.resp.valid

(* a license that holds usage rows has been cancelled *)
C19_Witness ==
    /\ resp.event_type = "subscription.cancelled"
    /\ \E l \in licenses : l.status = "cancelled" /\ UsageCount(Store, l.id) >= 1

----------------------------------------------------------------------------
(* Claims about deliveries that only reach the audit log *)

LogOnlyBodies ==
    {body \in EventBodies :
        /\ body.json = "object"
        /\ \/ Lower(Or(body.event_type, Or(body.event, "unknown")))
                 \notin {"subscription.created", "subscription.updated",
                         "transaction.completed", "subscription.cancelled"}
           \/ /\ body.event_type = "transaction.completed"
              /\ body.data.subscription_id = Absent}

(* C20: a correctly signed delivery with an event type that is not handled,
   or a transaction.completed without data.subscription_id, appends its
   WebhookLog row and changes no other table. *)
C20_LogOnlyEvents ==
    \A body \in LogOnlyBodies :
        LET header == ValidHeader(now, body)
            r == Delivery(header, body)
        IN  /\ Len(r.st.logs) = Len(logs) + 1
            /\ SubSeq(r.st.logs, 1, Len(logs)) = logs
            /\ r.st.logs[Len(logs) + 1].payload = body
            /\ [r.st EXCEPT !.logs = logs] = Store

(* a one-off payment was delivered to a server that holds a license: its log
   row is the last one, and no customer came with it *)
C20_Witness ==
    /\ licenses # {}
    /\ logs # <<>>
    /\ logs[Len(logs)].event_type = "transaction.completed"
    /\ logs[Len(logs)].payload.data.subscription_id = Absent
    /\ \A c \in customers : c.pcid # "ctm2"

----------------------------------------------------------------------------
(* Claims about machine bindings under concurrency *)

(* C21: in every reachable state, whatever the interleaving of verify and
   claim calls, each MachineBinding row (license_id, machine_id) is in the
   store at most once. *)
C21_OneBindingPerMachine ==
    \A b \in BagToSet(bindings) : bindings[b] = 1

----------------------------------------------------------------------------
(* Claims about the Paddle-Signature header *)

(* the headers that lack ts or h1, one after another: a part without "=",
   ts alone, h1 alone, ts with an unknown key in the place of h1 *)
MalformedHeaders(body) ==
    LET digest == ExpectedDigest(now, body) IN
    << <<BarePart>>, <<Part("ts", now)>>, <<Part("h1", digest)>>,
       <<Part("ts", now), Part("v1", digest)>> >>

(* C22: a request without the header is answered 400 "Missing
   Paddle-Signature header", one whose header lacks ts or h1 is answered 400
   "Malformed Paddle-Signature header", for every body (text or not) and
   with no table changed; parts with unknown keys and parts without "=" next
   to a correct ts and h1 do not change the answer or the rows written. *)
C22_HeaderRejections ==
    \A body \in Bodies :
        /\ LET r == Delivery(<<>>, body) IN
           /\ r.loc.resp = HttpError(400, "Missing Paddle-Signature header")
           /\ r.st = Store
        /\ \A i \in DOMAIN MalformedHeaders(body) :
              LET r == Delivery(MalformedHeaders(body)[i], body) IN
              /\ r.loc.resp = HttpError(400, "Malformed Paddle-Signature header")
              /\ r.st = Store
        /\ LET plain == Delivery(ValidHeader(now, body), body)
               extra == Delivery(<<Part("v1", 0), BarePart>> \o ValidHeader(now, body)
                                     \o <<Part("h2", 0)>>, body)
           IN  /\ extra.loc.resp = plain.loc.resp
               /\ [extra.st EXCEPT !.logs = <<>>] = [plain.st EXCEPT !.logs = <<>>]
               /\ Len(extra.st.logs) = Len(plain.st.logs)

(* a request with a malformed header was refused by a server that holds a
   license and a log row *)
C22_Witness ==
    /\ resp = HttpError(400, "Malformed Paddle-Signature header")
    /\ licenses # {}
    /\ logs # <<>>

(* C23: a delivery whose signature header is malformed adds a WebhookLog row
   and is answered 200 / ignored. *)
C23_MalformedHeaderLogged ==
    \A body \in Bodies : \A i \in DOMAIN MalformedHeaders(body) :
        LET r == Delivery(MalformedHeaders(body)[i], body) IN
        /\ r.loc.resp.http = 200
        /\ r.loc.resp.message = "ignored"
        /\ Len(r.st.logs) = Len(logs) + 1

----------------------------------------------------------------------------
(* Claims about the admin key and unknown license ids *)

ResetOps == {"reset_containers", "reset_machines"}

(* C24: a reset called with a missing or wrong X-Admin-API-Key is answered
   401 and leaves every table as it was, also when the license id exists. *)
C24_BadKeyIs401 ==
    \A op \in ResetOps, id \in 1..2, key \in AdminKeys \ {AdminApiKey} :
        LET r == After(ResetRequest(op, id, key)) IN
        /\ r.loc.resp.http = 401
        /\ r.st = Store

(* C25: reset-containers and reset-machines called with the admin key and a
   license id that no License has are answered 404 "License not found" and
   leave every table as it was. *)
C25_UnknownLicenseIs404 ==
    \A op \in ResetOps, id \in 1..2 :
        LicenseById(Store, id) = {}
        => LET r == After(ResetRequest(op, id, AdminApiKey)) IN
           /\ r.loc.resp = HttpError(404, "License not found")
           /\ r.st = Store

(* a reset of an unknown license id was answered 404 while another license
   has usage rows and bindings *)
C25_Witness ==
    /\ resp = HttpError(404, "License not found")
    /\ usages # EmptyBag
    /\ bindings # EmptyBag
    /\ \E id \in 1..2 : LicenseById(Store, id) = {}

----------------------------------------------------------------------------
(* Claims about magic-link requests and the email sender *)

(* the license a magic link can be requested for with this email *)
Linkable(key, email) ==
    {l \in LicenseBySub(Store, key) :
        l.status = "active" /\ (Truthy(email) \/ Truthy(l.email))}

(* C26: request-magic-link on an existing, active license with an email in
   the request or on the license adds exactly one MagicToken - of that
   license, unused, expiring TokenHours from now - and changes nothing else;
   a missing or inactive license is answered 404, an active one without any
   email 400, and in these two cases the store stays as it was. *)
C26_RequestIssuesOneToken ==
    \A key \in Keys, email \in RequestEmails, smtp_fails \in BOOLEAN :
        LET r == After(RequestMagicLinkRequest(key, email, smtp_fails))
            found == LicenseBySub(Store, key)
            added == r.st.tokens \ tokens
        IN
        IF Linkable(key, email) # {}
        THEN /\ tokens \subseteq r.st.tokens
             /\ Cardinality(added) = 1
             /\ \A t \in added :
                   /\ t.license_id \in {l.id : l \in Linkable(key, email)}
                   /\ t.used_at = Null
                   /\ t.expires_at = now + TokenHours
                   /\ t.id \notin {u.id : u \in tokens}
             /\ [r.st EXCEPT !.tokens = tokens] = Store
        ELSE /\ r.st = Store
             /\ r.loc.resp.http =
                   IF \E l \in found : l.status = "active" THEN 400 ELSE 404

(* a magic link was requested and issued for a license that already had its
   webhook-issued token *)
C26_Witness ==
    /\ resp.message = "Magic link sent to email"
    /\ \E t, u \in tokens :
          t.id # u.id /\ t.license_id = u.license_id /\ t.used_at = Null

(* deliveries that create a License when none has the subscription id *)
CreatingBodies ==
    { SubscriptionEvent("subscription.created", "s1", Absent,
                        Customer("a@x", "ctm1"), <<>>),
      SubscriptionEvent("subscription.updated", "s2", "active",
                        Customer("b@x", "ctm2"), <<>>),
      TransactionCompleted("s2", Absent, "ctm2", "b@x", <<>>) }

SubOf(body) ==
    IF body.event_type = "transaction.completed" THEN body.data.subscription_id
    ELSE body.data.id

FailedSend(request) == Run(Store, [request EXCEPT !.smtp_fails = TRUE])

(* C27: when the SMTP exchange fails, a correctly signed subscription.created,
   subscription.updated or transaction.completed delivery for a subscription
   id without a License still commits the License, its MagicToken and its
   WebhookLog row and answers 200 / success, and a magic-link request that
   would be served still persists its MagicToken and answers success: store
   and answer are those of the same call with a working sender. *)
C27_EmailFailureTolerated ==
    /\ \A body \in CreatingBodies :
          LET request == WebhookRequest(ValidHeader(now, body), body)
              r == FailedSend(request)
              created == r.st.licenses \ licenses
          IN
          LicenseBySub(Store, SubOf(body)) = {}
          => /\ r.loc.resp.http = 200
             /\ r.loc.resp.message = "success"
             /\ Cardinality(created) = 1
             /\ \A l \in created :
                   /\ l.sub = SubOf(body)
                   /\ \E t \in r.st.tokens \ tokens : t.license_id = l.id
             /\ Len(r.st.logs) = Len(logs) + 1
             /\ r.st = After(request).st
    /\ \A key \in Keys, email \in RequestEmails :
          LET request == RequestMagicLinkRequest(key, email, FALSE)
              r == FailedSend(request)
          IN
          /\ r.st = After(request).st
          /\ r.loc.resp = After(request).loc.resp
          /\ Linkable(key, email) # {}
             => /\ r.loc.resp.http = 200
                /\ r.loc.resp.success
                /\ Cardinality(r.st.tokens \ tokens) = 1

(* a magic link was issued to the address of the request for a license that
   has no email of its own, and a delivery created a license with its token *)
C27_Witness ==
    /\ resp.message = "Magic link sent to email"
    /\ \E l \in licenses :
          l.email = "" /\ \E t \in tokens : t.license_id = l.id
    /\ \E l \in licenses :
          Truthy(l.email) /\ \E t \in tokens : t.license_id = l.id

----------------------------------------------------------------------------
(* Claims about the order of deliveries *)

(* the status a delivery writes to the License of its subscription *)
WrittenStatus(body) ==
    CASE body.event_type = "subscription.cancelled" -> "cancelled"
      [] body.event_type = "transaction.completed" -> Or(body.data.status, "active")
      [] OTHER -> IF body.data.status = Absent THEN "active" ELSE body.data.status

(* the allowed_containers a delivery writes; a cancellation writes none *)
WrittenAllowed(body, l) ==
    CASE body.event_type = "subscription.cancelled" -> l.allowed
      [] body.event_type = "transaction.completed" -> transaction_allowed(body.data.items)
      [] OTHER -> subscription_allowed(body.data.items)

Resurrecting ==
    {body \in OrderBodies : /\ body.event_type = "subscription.updated"
                            /\ body.data.status \in {Absent, "active"}}

(* C28: a correctly signed delivery for a subscription id that has a License
   is answered 200 and leaves the License with the status and the
   allowed_containers that this delivery writes, whatever they were before;
   a subscription.updated with status active or absent delivered when the
   License is cancelled makes it active, and a verify call that was refused
   for the status is then answered valid = true when the container is already
   counted or the new allowed_containers leaves room. *)
C28_LastWriteWins ==
    /\ \A body \in OrderBodies : \A l \in LicenseBySub(Store, SubOf(body)) :
          LET r == Delivery(ValidHeader(now, body), body) IN
          /\ r.loc.resp.http = 200
          /\ \E after \in r.st.licenses :
                /\ after.id = l.id
                /\ after.status = WrittenStatus(body)
                /\ after.allowed = WrittenAllowed(body, l)
    /\ \A body \in Resurrecting : \A l \in LicenseBySub(Store, SubOf(body)) :
          l.status = "cancelled"
          => \A m \in Machines, c \in Containers \cup {None} :
                LET request == VerifyRequest(l.sub, m, c)
                    r == Delivery(ValidHeader(now, body), body)
                    allowed == WrittenAllowed(body, l)
                    room == \/ allowed = Unlimited
                            \/ UsageCount(Store, l.id) < allowed
                            \/ Truthy(c) /\ UsageExists(Store, l.id, c)
                IN  /\ ~After(request).loc.resp.valid
                    /\ Run(r.st, request).loc.resp.valid = room

(* a subscription.updated was processed after the cancellation of a license
   that has a usage row, and the license is active *)
C28_Witness ==
    /\ resp.event_type = "subscription.updated"
    /\ Len(logs) >= 3
    /\ logs[Len(logs) - 1].event_type = "subscription.cancelled"
    /\ \E l \in licenses : l.status = "active" /\ UsageCount(Store, l.id) >= 1

----------------------------------------------------------------------------
(* Claims about the audit row and the rows of its delivery *)

(* the audit rows of the deliveries that create or change the License of sub *)
LicenseLogs(sub) ==
    {i \in DOMAIN logs :
        /\ logs[i].payload.json = "object"
        /\ logs[i].event_type \in {"subscription.created", "subscription.updated",
                                   "transaction.completed"}
        /\ SubOf(logs[i].payload) = sub}

(* C29: in every committed state, deliveries racing and failing included,
   each License, Customer and MagicToken has the audit row of a delivery that
   writes it, and each audit row of a parseable subscription.created with a
   subscription id has the License of that id and, when the payload names a
   customer email, the Customer of that email. *)
C29_LogAndMutationTogether ==
    /\ \A l \in licenses : LicenseLogs(l.sub) # {}
    /\ \A c \in customers :
          \E i \in DOMAIN logs : logs[i].payload.data.customer.email = c.email
    /\ \A t \in tokens :
          \E l \in licenses, i \in DOMAIN logs :
              /\ l.id = t.license_id
              /\ i \in LicenseLogs(l.sub)
              /\ Truthy(logs[i].payload.data.customer.email)
    /\ \A sub \in Subs : \A i \in LicenseLogs(sub) :
          /\ LicenseBySub(Store, sub) # {}
          /\ LET email == logs[i].payload.data.customer.email IN
             Truthy(email) => \E c \in customers : c.email = email

(* of two deliveries that raced to create the license, one without a customer
   committed and the other failed on the unique index: one audit row, one
   License, no Customer *)
C29_Witness ==
    /\ \E p \in Procs : /\ procs[p].op = "webhook"
                         /\ procs[p].pc = "done"
                         /\ procs[p].resp = HttpError(500, "IntegrityError licenses")
    /\ Len(logs) = 1
    /\ Cardinality(licenses) = 1
    /\ customers = {}

----------------------------------------------------------------------------
(* Claims about the magic tokens that deliveries issue *)

(* deliveries for a second subscription, with an email and without *)
SecondBodies ==
    { SubscriptionEvent("subscription.created", "s2", Absent,
                        Customer("b@x", "ctm2"), <<>>),
      SubscriptionEvent("subscription.created", "s2", Absent, NoCustomer, <<>>),
      SubscriptionEvent("subscription.updated", "s2", "active", NoCustomer, <<>>),
      TransactionCompleted("s2", Absent, Absent, Absent, <<>>),
      TransactionCompleted("s2", Absent, "ctm2", "b@x", <<>>) }

(* C30: a correctly signed delivery adds exactly one MagicToken - of the new
   License, unused, expiring TokenHours from now - when it creates a License
   with an email, and no MagicToken when it changes an existing License,
   creates one without an email, or creates none; so each License has at
   most one MagicToken while deliveries alone issue them. *)
C30_TokenOnlyOnCreation ==
    /\ \A body \in EventBodies \cup SecondBodies :
          LET r == Delivery(ValidHeader(now, body), body)
              created == {l \in r.st.licenses : LicenseById(Store, l.id) = {}}
              added == r.st.tokens \ tokens
          IN
          /\ tokens \subseteq r.st.tokens
          /\ IF \E l \in created : Truthy(l.email)
             THEN /\ Cardinality(added) = 1
                  /\ \A t \in added :
                        /\ t.license_id \in {l.id : l \in created}
                        /\ t.used_at = Null
                        /\ t.expires_at = now + TokenHours
             ELSE added = {}
    /\ \A l \in licenses : Cardinality({t \in tokens : t.license_id = l.id}) <= 1

(* the License that a delivery created with its token has been changed by a
   later delivery and still has one token *)
C30_Witness ==
    /\ Len(logs) = 2
    /\ logs[1].event_type = "subscription.created"
    /\ logs[2].event_type \in {"subscription.updated", "transaction.completed"}
    /\ \E l \in licenses :
          /\ l.sub = SubOf(logs[2].payload)
          /\ Cardinality({t \in tokens : t.license_id = l.id}) = 1

----------------------------------------------------------------------------
(* Claims about the Customer and the quota that a delivery resolves *)

(* transaction.completed deliveries of a subscription, naming a customer by
   id, by billing email, or by both *)
NamedCustomerBodies ==
    { TransactionCompleted("s2", Absent, pcid, email, <<>>) :
        pcid \in {Absent, "ctm3"}, email \in {Absent, "c@x"} }
    \ { TransactionCompleted("s2", Absent, Absent, Absent, <<>>) }

(* C31: a correctly signed transaction.completed with a subscription id whose
   customer id and email match no Customer, and that carries at least one of
   the two, is answered 200 / success, adds one Customer with those
   identifiers and leaves the License of the subscription linked to it. *)
C31_CustomerCreatedFromEitherIdentifier ==
    \A body \in NamedCustomerBodies :
        LET r == Delivery(ValidHeader(now, body), body)
            pcid == body.data.customer_id
            email == body.data.billing_details.email
            known == {c \in customers : c.pcid = pcid \/ c.email = email}
            added == r.st.customers \ customers
        IN
        known = {}
        => /\ r.loc.resp.http = 200
           /\ r.loc.resp.message = "success"
           /\ Cardinality(added) = 1
           /\ \A l \in LicenseBySub(r.st, "s2") :
                 \E c \in added : l.customer_id = c.id

(* the first item of a delivery: plan named by price.name, by
   price.product_id or not at all, in the table or not, in any letter case;
   quantity positive, zero, negative or not an integer *)
FirstItems ==
    { Item(name, product_id, quantity) :
        name \in {Absent, "basic", "Pro", "ENTERPRISE", "team"},
        product_id \in {Absent, "pro", "team"},
        quantity \in {-2, 0, 1, 3} }
    \cup { ItemWithoutCount(name, Absent) : name \in {Absent, "pro", "team"} }

PlanTable == [basic |-> 1, pro |-> 5, enterprise |-> Unlimited]

NamedPlan(item) ==
    LET raw == IF Truthy(item.price.name) THEN item.price.name
               ELSE IF Truthy(item.price.product_id) THEN item.price.product_id
               ELSE "basic"
    IN  CASE raw = "Pro" -> "pro"
          [] raw = "ENTERPRISE" -> "enterprise"
          [] OTHER -> raw

(* the allowed_containers of the claim, for a delivery with this first item *)
ResolvedQuota(event_type, item) ==
    IF NamedPlan(item) \in DOMAIN PlanTable THEN PlanTable[NamedPlan(item)]
    ELSE IF event_type # "transaction.completed" THEN 1
    ELSE IF item.quantity_is_int /\ item.quantity > 0 THEN item.quantity
    ELSE 1

QuotaDelivery(event_type, sub, items) ==
    LET body == IF event_type = "transaction.completed"
                THEN TransactionCompleted(sub, Absent, "ctm1", "a@x", items)
                ELSE SubscriptionEvent(event_type, sub, Absent,
                                       Customer("a@x", "ctm1"), items)
    IN  Delivery(ValidHeader(now, body), body)

(* C32: a correctly signed subscription.created, subscription.updated or
   transaction.completed leaves the License of its subscription, new or
   existing, with allowed_containers = table[plan] when the lower-cased plan
   name (price.name, else price.product_id, else "basic") is in the table;
   otherwise with 1 for subscription.*, and for transaction.completed with
   the quantity of the first item when that is a positive integer and 1 when
   it is not; without items the plan is "basic". *)
C32_QuotaResolution ==
    \A event_type \in {"subscription.created", "subscription.updated",
                        "transaction.completed"}, sub \in Subs :
        /\ \A item \in FirstItems :
              LET r == QuotaDelivery(event_type, sub, <<item>>) IN
              /\ r.loc.resp.http = 200
              /\ LicenseBySub(r.st, sub) # {}
              /\ \A l \in LicenseBySub(r.st, sub) :
                    l.allowed = ResolvedQuota(event_type, item)
        /\ \A l \in LicenseBySub(QuotaDelivery(event_type, sub, <<>>).st, sub) :
              l.allowed = 1

(* a transaction.completed with the plan "team", which the table does not
   have, and quantity 2 has left the license with allowed_containers = 2 *)
C32_Witness ==
    /\ resp.event_type = "transaction.completed"
    /\ logs # <<>>
    /\ logs[Len(logs)].payload.data.items # <<>>
    /\ logs[Len(logs)].payload.data.items[1].price.name = "team"
    /\ \E l \in licenses : l.allowed = 2

----------------------------------------------------------------------------
(* Claims about verify calls without a container id, machine bindings and
   the usage count of the answer *)

(* a request without a container id: the key missing or null, or empty *)
NoContainer == {None, ""}

(* C33: a verify call without a container id on an active license with
   allowed_containers # -1 is answered valid = false exactly when the number
   of LicenseUsage rows of the license is >= allowed_containers; accepted or
   refused it leaves the LicenseUsage rows as they were, and the same call
   repeated gets the same answer. *)
C33_ContainerlessVerify ==
    \A l \in licenses : \A m \in Machines, c \in NoContainer :
        (l.status = "active" /\ l.allowed # Unlimited)
        => LET request == VerifyRequest(l.sub, m, c)
               r == After(request)
               again == Run(r.st, request)
           IN  /\ r.loc.resp.http = 200
               /\ r.loc.resp.valid = ~(UsageCount(Store, l.id) >= l.allowed)
               /\ r.st.usages = usages
               /\ again.st.usages = usages
               /\ again.loc.resp = r.loc.resp

(* a verify call was accepted on a limited license and no usage row exists:
   the call carried no container id *)
C33_Witness ==
    /\ resp.valid
    /\ resp.allowed >= 1
    /\ resp.usage = 0
    /\ usages = EmptyBag
    /\ bindings # EmptyBag

(* the store with other MachineBinding rows: none, or every machine bound to
   every license *)
Unbound == [Store EXCEPT !.bindings = EmptyBag]

AllBound ==
    [Store EXCEPT !.bindings =
        SetToBag({[license_id |-> l.id, machine_id |-> m] :
                     l \in licenses, m \in Machines})]

(* C34: the valid / invalid outcome of a verify call, its message and the
   LicenseUsage rows it leaves are the same whichever MachineBinding rows
   exist, and after a call answered valid = true the store holds a
   MachineBinding row of the license and the machine of the call, with the
   rows of the other machines kept. *)
C34_BindingInformational ==
    \A key \in Keys, m \in Machines, c \in Containers \cup {None} :
        LET request == VerifyRequest(key, m, c)
            r == After(request)
        IN
        /\ \A st \in {Unbound, AllBound} :
              LET other == Run(st, request) IN
              /\ other.loc.resp = r.loc.resp
              /\ other.st.usages = r.st.usages
        /\ r.loc.resp.valid
           => /\ BindingExists(r.st, r.loc.resp.license_id, m)
              /\ \A b \in BagToSet(bindings) : r.st.bindings[b] >= bindings[b]

(* a verify call of one machine was accepted on a license that the other
   machine is bound to as well *)
C34_Witness ==
    /\ resp.valid
    /\ \E l \in licenses :
          /\ l.id = resp.license_id
          /\ l.allowed # Unlimited
          /\ \A m \in Machines : BindingExists(Store, l.id, m)

(* served alone, the answer counts the rows before the call and the row the
   call inserts *)
CountAfterCallAlone ==
    \A l \in licenses : \A m \in Machines, c \in Containers \cup {None} :
        LET r == After(VerifyRequest(l.sub, m, c))
            inserted == BagCardinality(r.st.usages) - BagCardinality(usages)
        IN  r.loc.resp.valid
            => /\ inserted = IF Truthy(c) /\ ~UsageExists(Store, l.id, c)
                             THEN 1 ELSE 0
               /\ r.loc.resp.usage = UsageCount(Store, l.id) + inserted

(* the step that answers a verify call returns the number of rows that the
   store holds at that step, the rows of other calls included *)
CountReadAfterCommit ==
    \A p \in Procs :
        (procs[p].op = "verify" /\ procs[p].pc # "done" /\ procs'[p].pc = "done"
           /\ procs'[p].resp.valid)
        => procs'[p].resp.usage = UsageCount(Store, procs[p].license_id)

(* C35: the current_usage of a verify call answered valid = true is the
   number of LicenseUsage rows of the license in the store after the call's
   commit, rows committed by concurrent calls included; for a call served
   alone it is the count before the call plus 1 if the call inserted a row
   and plus 0 otherwise. *)
C35_UsageCountedAfterCommit ==
    [](CountAfterCallAlone) /\ [][CountReadAfterCommit]_vars

(* two concurrent calls for two containers of a license that allows one were
   both accepted, and one of them was answered with the count of both rows *)
C35_Witness ==
    \E p \in Procs :
        /\ procs[p].op = "verify"
        /\ procs[p].pc = "done"
        /\ procs[p].resp.valid
        /\ procs[p].resp.allowed = 1
        /\ procs[p].resp.usage = 2

----------------------------------------------------------------------------
(* Claims about which operation writes which table *)

Quota(st) == {[id |-> l.id, status |-> l.status, allowed |-> l.allowed] : l \in st.licenses}

OfLicense(B, id) == BagWithout(B, LAMBDA row : row.license_id # id)

OfOthers(B, id) == BagWithout(B, LAMBDA row : row.license_id = id)

(* every row of B is in C as often *)
Kept(B, C) ==
    \A row \in BagToSet(B) : row \in BagToSet(C) /\ C[row] >= B[row]

(* C36: verify removes no LicenseUsage and no MachineBinding row; claim
   leaves the LicenseUsage rows as they were and removes no MachineBinding
   row; reset-containers leaves the MachineBinding rows and the LicenseUsage
   rows of the other licenses as they were, reset-machines the LicenseUsage
   rows and the MachineBinding rows of the other licenses; a webhook delivery
   and a magic-link request leave both tables as they were; verify, claim
   and the resets leave status and allowed_containers of every License as
   they were. *)
C36_DisjointWriteSets ==
    /\ \A key \in Keys, m \in Machines, c \in Containers \cup {None} :
          LET r == After(VerifyRequest(key, m, c)) IN
          /\ Kept(usages, r.st.usages)
          /\ Kept(bindings, r.st.bindings)
          /\ Quota(r.st) = Quota(Store)
    /\ \A token \in TokenInputs, m \in Machines :
          LET r == After(ClaimRequest(token, m)) IN
          /\ r.st.usages = usages
          /\ Kept(bindings, r.st.bindings)
          /\ Quota(r.st) = Quota(Store)
    /\ \A id \in 1..2, key \in AdminKeys :
          LET containers == After(ResetRequest("reset_containers", id, key))
              machines == After(ResetRequest("reset_machines", id, key))
          IN
          /\ containers.st.bindings = bindings
          /\ OfOthers(containers.st.usages, id) = OfOthers(usages, id)
          /\ Kept(containers.st.usages, usages)
          /\ machines.st.usages = usages
          /\ OfOthers(machines.st.bindings, id) = OfOthers(bindings, id)
          /\ Kept(machines.st.bindings, bindings)
          /\ Quota(containers.st) = Quota(Store)
          /\ Quota(machines.st) = Quota(Store)
    /\ \A body \in QuotaBodies \cup SecondBodies :
          LET r == Delivery(ValidHeader(now, body), body) IN
          r.st.usages = usages /\ r.st.bindings = bindings
    /\ \A key \in Keys, email \in RequestEmails :
          LET r == After(RequestMagicLinkRequest(key, email, FALSE)) IN
          r.st.usages = usages /\ r.st.bindings = bindings

(* the containers of one license were reset while both licenses had usage
   rows and bindings: the other license keeps its rows, the reset license
   its bindings *)
C36_Witness ==
    /\ resp.message = "Container usage reset"
    /\ \E l, k \in licenses :
          /\ l.id # k.id
          /\ UsageCount(Store, l.id) = 0
          /\ OfLicense(bindings, l.id) # EmptyBag
          /\ UsageCount(Store, k.id) >= 1
          /\ OfLicense(bindings, k.id) # EmptyBag

----------------------------------------------------------------------------
(* Claims about the event type of a delivery *)

Canonical ==
    SubscriptionEvent("subscription.created", "s2", Absent,
                      Customer("b@x", Absent), <<Item(Absent, "pro", 1)>>)

(* the same delivery with its event type spelled in mixed case, under the
   event key (the event_type key missing, null or empty), or under both keys *)
Spellings ==
    { [Canonical EXCEPT !.event_type = "Subscription.Created"],
      [Canonical EXCEPT !.event_type = Absent, !.event = "subscription.created"],
      [Canonical EXCEPT !.event_type = None, !.event = "Subscription.Created"],
      [Canonical EXCEPT !.event_type = "", !.event = "subscription.created"],
      [Canonical EXCEPT !.event = "subscription.cancelled"] }

Untyped ==
    { [Canonical EXCEPT !.event_type = Absent],
      [Canonical EXCEPT !.event_type = None, !.event = ""] }

Signed(body) == Delivery(ValidHeader(now, body), body)

(* C37: a correctly signed delivery whose event type is spelled in another
   letter case, or given under the event key when event_type is missing or
   empty, is answered and changes licenses, customers and tokens exactly as
   the same delivery with event_type "subscription.created", and its audit
   row carries the lower-cased name; event_type has precedence over event;
   without either key the delivery is logged as "unknown" and changes
   nothing else. *)
C37_EventTypeNormalized ==
    /\ \A body \in Spellings :
          LET r == Signed(body)
              c == Signed(Canonical)
          IN
          /\ r.loc.resp = c.loc.resp
          /\ [r.st EXCEPT !.logs = logs] = [c.st EXCEPT !.logs = logs]
          /\ Len(r.st.logs) = Len(c.st.logs)
          /\ r.loc.resp.http = 200
             => /\ r.loc.resp.event_type = "subscription.created"
                /\ r.st.logs = Append(logs, WebhookLog("subscription.created", body,
                                                       ValidHeader(now, body)))
    /\ \A body \in Untyped :
          LET r == Signed(body) IN
          /\ r.loc.resp.event_type = "unknown"
          /\ r.st = [Store EXCEPT !.logs = Append(logs, WebhookLog("unknown", body,
                                                          ValidHeader(now, body)))]

(* a delivery spelled "Subscription.Created" has created its license and is
   logged as subscription.created *)
C37_Witness ==
    /\ resp.event_type = "subscription.created"
    /\ logs # <<>>
    /\ logs[Len(logs)].payload.event_type = "Subscription.Created"
    /\ logs[Len(logs)].event_type = "subscription.created"
    /\ \E l \in licenses : l.sub = "s2" /\ l.allowed = 5

----------------------------------------------------------------------------
(* Claims about a quota lowered below the usage *)

OverQuota(st) ==
    {l \in st.licenses : /\ l.status = "active"
                         /\ l.allowed # Unlimited
                         /\ UsageCount(st, l.id) > l.allowed}

Raising ==
    SubscriptionEvent("subscription.updated", "s1", "active",
                      Customer("a@x", "ctm1"), <<Item("enterprise", Absent, 1)>>)

(* C38: no delivery removes a LicenseUsage row, also when it lowers
   allowed_containers below the number of rows; on an active license with
   more rows than allowed_containers, a verify call for a counted container
   id is answered valid = true and adds no row, and one for a new container
   id or without a container id is answered valid = false, from any machine;
   after reset-containers, or after a delivery that makes the plan unlimited,
   the new container id is answered valid = true. *)
C38_DowngradeKeepsUsage ==
    /\ \A body \in QuotaBodies :
          Signed(body).st.usages = usages
    /\ \A l \in OverQuota(Store) : \A m \in Machines, c \in Containers \cup {None} :
          LET request == VerifyRequest(l.sub, m, c)
              r == After(request)
              reset == After(ResetRequest("reset_containers", l.id, AdminApiKey))
              raised == Signed(Raising)
          IN
          /\ r.st.usages = usages
          /\ r.loc.resp.valid = (Truthy(c) /\ UsageExists(Store, l.id, c))
          /\ (Truthy(c) /\ l.allowed >= 1) => Run(reset.st, request).loc.resp.valid
          /\ l.sub = "s1" => Run(raised.st, request).loc.resp.valid

(* a delivery has lowered allowed_containers of an active license below the
   number of its usage rows *)
C38_Witness ==
    /\ resp.event_type \in {"subscription.created", "subscription.updated",
                            "transaction.completed"}
    /\ \E l \in OverQuota(Store) : l.allowed >= 1

(* a delivery of worker p has been acknowledged with success *)
Acknowledged(p) ==
    /\ procs[p].op = "webhook"
    /\ procs[p].pc = "done"
    /\ procs[p].resp.http = 200

(* C39: under provider retry and fair scheduling every license-creating
   delivery of a subscription, two racing first deliveries included, is
   eventually acknowledged with success, and whenever a delivery of the
   subscription stands acknowledged the store holds exactly one License row
   for it. *)
C39_ConvergesUnderRetry ==
    /\ \A p \in Procs : (procs[p].op = "webhook") ~> Acknowledged(p)
    /\ [](\A p \in Procs :
            Acknowledged(p)
            => Cardinality(LicenseBySub(Store, SubOf(procs[p].body))) = 1)

(* the tokens that are unused and unexpired now *)
Redeemable == {t \in tokens : redeemable(t, t.id, now)}

(* the magic-link requests, which issue a MagicToken for an active license *)
IssuingRequests ==
    { RequestMagicLinkRequest(key, email, FALSE) : key \in Subs, email \in RequestEmails }

(* C40: claim with an unused, unexpired token answers success=true and leaves
   the MachineBinding of its license and machine whatever the status of the
   license, uses up that token only, so that every other redeemable token of
   the license is still redeemed afterwards while the same token is refused;
   and no webhook delivery or magic-link request changes or removes a token
   that exists. *)
C40_RedemptionIndependent ==
    /\ \A t \in Redeemable : \A m \in Machines :
          LET r == After(ClaimRequest(t.id, m)) IN
          /\ r.loc.resp.success
          /\ r.loc.resp.license_id = t.license_id
          /\ BindingExists(r.st, t.license_id, m)
          /\ r.st.tokens \ {[t EXCEPT !.used_at = {now}]} = tokens \ {t}
          /\ ~Run(r.st, ClaimRequest(t.id, m)).loc.resp.success
          /\ \A u \in Redeemable \ {t} :
                Run(r.st, ClaimRequest(u.id, m)).loc.resp.success
    /\ \A request \in IssuingRequests : tokens \subseteq After(request).st.tokens
    /\ \A body \in LinkBodies : tokens \subseteq Signed(body).st.tokens

(* two tokens of a cancelled license have both been redeemed *)
C40_Witness ==
    /\ resp.success
    /\ \E l \in licenses :
          /\ l.status = "cancelled"
          /\ \E t, u \in tokens :
                /\ t # u
                /\ t.license_id = l.id /\ u.license_id = l.id
                /\ t.used_at # Null /\ u.used_at # Null
                /\ t.used_at \subseteq {now} \/ u.used_at \subseteq {now}

====
